---- MODULE Spec2Model ----
(***************************************************************************)
(* Retrieval core of the cricket image chatbot: query classification,      *)
(* structured (SQL) dispatch, multi-person verification, semantic search   *)
(* and the query-refinement retry loop (llm_service.py, db_store.py,       *)
(* vector_store.py, query_refinement.py).                                  *)
(*                                                                         *)
(* Texts are TLA+ strings; Python's "t in s", lower(), strip() and split() *)
(* are computed character by character.  Distances and thresholds are      *)
(* integers in tenths (4 stands for 0.4).                                  *)
(***************************************************************************)
EXTENDS Integers, Sequences, FiniteSets, TLC

-----------------------------------------------------------------------------
(* Bounds of the model *)

\* largest number of rows of cricket_data in a store state
MaxStoreRows == 2

\* largest index of the refinement list whose text the embedding can be near
MaxHotIdx == 1

\* largest limit k a retriever is called with (0 stands for no limit)
MaxK == 1

-----------------------------------------------------------------------------
(* Python string primitives *)

UpperChars == "ABCDEFGHIJKLMNOPQRSTUVWXYZ"
LowerChars == "abcdefghijklmnopqrstuvwxyz"

LowerMap ==
  [c \in {SubSeq(UpperChars, i, i) : i \in 1..26} |->
     LET i == CHOOSE j \in 1..26 : SubSeq(UpperChars, j, j) = c
     IN  SubSeq(LowerChars, i, i)]

RECURSIVE Lower(_)
\* str.lower(), computed on the two halves of the text
Lower(s) ==
  IF s = "" THEN ""
  ELSE IF Len(s) = 1 THEN (IF s \in DOMAIN LowerMap THEN LowerMap[s] ELSE s)
  ELSE LET h == Len(s) \div 2
       IN  Lower(SubSeq(s, 1, h)) \o Lower(SubSeq(s, h + 1, Len(s)))

\* Python "t in s" for strings
Contains(s, t) ==
  \E i \in 1..(Len(s) - Len(t) + 1) : SubSeq(s, i, i + Len(t) - 1) = t

RECURSIVE Split(_)
\* str.split(): the maximal runs of non-blank characters, in order
Split(s) ==
  IF s = "" THEN << >>
  ELSE IF SubSeq(s, 1, 1) = " " THEN Split(SubSeq(s, 2, Len(s)))
  ELSE LET n == IF \E i \in 1..Len(s) : SubSeq(s, i, i) = " "
                THEN (CHOOSE i \in 1..Len(s) :
                        /\ SubSeq(s, i, i) = " "
                        /\ \A j \in 1..(i - 1) : SubSeq(s, j, j) # " ") - 1
                ELSE Len(s)
       IN  <<SubSeq(s, 1, n)>> \o Split(SubSeq(s, n + 1, Len(s)))

\* bool(s.strip()): some character of s is not blank
StripNonEmpty(s) == \E i \in 1..Len(s) : SubSeq(s, i, i) # " "

RECURSIVE Join(_)
\* ' '.join(words)
Join(ws) ==
  IF ws = << >> THEN ""
  ELSE IF Len(ws) = 1 THEN ws[1]
  ELSE ws[1] \o " " \o Join(Tail(ws))

\* any(t in s for t in terms)
ContainsAny(s, terms) == \E i \in 1..Len(terms) : Contains(s, terms[i])

\* \bword\b found by re.search in s: the word with no word character
\* (letter or digit) next to it on either side
IsWordChar(c) ==
  \E i \in 1..26 : SubSeq(LowerChars, i, i) = c \/ SubSeq(UpperChars, i, i) = c

WholeWord(s, w) ==
  \E i \in 1..(Len(s) - Len(w) + 1) :
     /\ SubSeq(s, i, i + Len(w) - 1) = w
     /\ (i = 1 \/ ~IsWordChar(SubSeq(s, i - 1, i - 1)))
     /\ (i + Len(w) - 1 = Len(s) \/ ~IsWordChar(SubSeq(s, i + Len(w), i + Len(w))))

\* the elements of a sequence that satisfy Test, in order
RECURSIVE SelectIdx(_, _, _)
SelectIdx(seq, keep, i) ==
  IF i > Len(seq) THEN << >>
  ELSE (IF i \in keep THEN <<seq[i]>> ELSE << >>) \o SelectIdx(seq, keep, i + 1)

\* list(dict.fromkeys(seq)): first occurrences, order kept
Dedup(seq) ==
  SelectIdx(seq, {i \in 1..Len(seq) : \A j \in 1..(i - 1) : seq[j] # seq[i]}, 1)

Range(seq) == {seq[i] : i \in 1..Len(seq)}

MinOf(S) == CHOOSE a \in S : \A b \in S : a <= b

-----------------------------------------------------------------------------
(* query_refinement.py: correct_spelling and refine_query *)

\* cricket_terms: correct spelling and its misspellings, in dict order
cricket_terms ==
  << [term |-> "batsman", miss |-> {"batsmen", "batsmans", "batsman", "batters"}],
     [term |-> "bowler", miss |-> {"bowelers", "bowlers", "bowlar"}],
     [term |-> "wicketkeeper",
      miss |-> {"wicket keeper", "wicket-keeper", "keeper", "wk", "wkt keeper"}],
     [term |-> "fielder", miss |-> {"fielders", "felder", "feilder"}],
     [term |-> "batting", miss |-> {"bating", "battting"}],
     [term |-> "bowling", miss |-> {"boweling", "bowlling", "bowlng"}],
     [term |-> "fielding", miss |-> {"feildng", "fieldin", "feilding"}],
     [term |-> "celebrating", miss |-> {"celebratng", "celebratig", "celabrating"}],
     [term |-> "practice", miss |-> {"practise", "practce", "practis"}],
     [term |-> "match", miss |-> {"mach", "matche", "mathc"}],
     [term |-> "joburg", miss |-> {"joberg", "johburg", "joburg", "johannesburg"}],
     [term |-> "kings", miss |-> {"king", "kigns", "kngs"}],
     [term |-> "stadium", miss |-> {"stadum", "stedium", "statium"}],
     [term |-> "cricket", miss |-> {"criket", "cricet", "crickt"}],
     [term |-> "player", miss |-> {"playr", "pleyer", "plyer"}],
     [term |-> "team", miss |-> {"tem", "teem", "taem"}],
     [term |-> "press", miss |-> {"pres", "prss", "presss"}],
     [term |-> "conference", miss |-> {"conferance", "confrence", "conferrence"}],
     [term |-> "interview", miss |-> {"intervew", "intervue", "interveiw"}],
     [term |-> "promotional", miss |-> {"promotinal", "promotonal", "promtional"}],
     [term |-> "event", miss |-> {"evnt", "eventt", "evant"}] >>

\* the correction of one token: the first term it is a misspelling of
correct_word(word) ==
  LET hits == {i \in 1..Len(cricket_terms) : word \in cricket_terms[i].miss}
  IN  IF hits = {} THEN word ELSE cricket_terms[MinOf(hits)].term

\* word_tokenize (external) on texts without punctuation: the blank-separated
\* words
word_tokenize(text) == Split(text)

correct_spelling(query) ==
  LET words == word_tokenize(Lower(query))
  IN  Join([i \in 1..Len(words) |-> correct_word(words[i])])

stop_words ==
  {"a", "an", "the", "and", "or", "but", "in", "on", "at", "to", "for", "with",
   "by", "about", "like", "through", "over", "before", "after", "between",
   "under", "during", "without", "of"}

context_terms == <<"cricket", "player", "match", "joburg super kings", "jsk">>

\* "[word for word in words if word.lower() not in stop_words]"
without_stop_words(words) ==
  SelectIdx(words, {i \in 1..Len(words) : words[i] \notin stop_words}, 1)

\* "[corrected_query] if corrected_query != query"
IfChanged(corrected_query, query) ==
  IF corrected_query # query THEN <<corrected_query>> ELSE << >>

\* "' '.join(filtered_words) if filtered_words"
JoinedIfAny(filtered_words) ==
  IF filtered_words # << >> THEN <<Join(filtered_words)>> ELSE << >>

\* query + " " + term for each context term that is not in the query
with_context(query) ==
  SelectIdx([i \in 1..Len(context_terms) |-> query \o " " \o context_terms[i]],
            {i \in 1..Len(context_terms) : ~Contains(Lower(query), context_terms[i])}, 1)

\* "Remove duplicates and empty queries"
NonBlankUnique(queries) ==
  Dedup(SelectIdx(queries, {i \in 1..Len(queries) : StripNonEmpty(queries[i])}, 1))

\* a refine_query that puts the corrected spelling in front
refine_query_corrected_first(query, nlp) ==
  NonBlankUnique(
    IfChanged(correct_spelling(query), query)
      \o <<query>> \o nlp.syn
      \o JoinedIfAny(without_stop_words(word_tokenize(Lower(query))))
      \o nlp.kw
      \o with_context(query))

\* (the corrected spelling appended behind the other variants)
refine_query_corrected_last(query, nlp) ==
  NonBlankUnique(
    <<query>> \o nlp.syn
      \o JoinedIfAny(without_stop_words(word_tokenize(Lower(query))))
      \o nlp.kw
      \o with_context(query)
      \o IfChanged(correct_spelling(query), query))

\* refine_query: nlp holds the variants that come from WordNet, the Porter
\* stemmer, the POS tagger and the entity catalog (external): nlp.syn the
\* synonym / stemming / entity variants, nlp.kw the reordering and
\* lemmatisation variants
refine_query(query, nlp) ==
  NonBlankUnique(
    <<query>>
      \o IfChanged(correct_spelling(query), query)
      \o <<query>> \o nlp.syn
      \o JoinedIfAny(without_stop_words(word_tokenize(Lower(query))))
      \o nlp.kw
      \o with_context(query))

-----------------------------------------------------------------------------
(* Inputs of the model: query texts *)

Queries ==
  { "STEPHEN FLEMING and DEVON CONWAY together",
    "fleming and conway",
    "conway together",
    "players together",
    "team photo",
    "how many practice images of players",
    "how many images of players batting",
    "player stats table",
    "show me conway batting",
    "happy fans",
    "training photo of bowler",
    "bating pics",
    "sunset",
    "press meet",
    "what is cricket",
    "",
    "  " }

\* the variants the external NLP resources and the catalog contribute
NoNlp == [syn |-> << >>, kw |-> << >>]
NlpChoices ==
  {NoNlp, [syn |-> <<"team photo", "">>, kw |-> <<"pics bating", "team photo">>]}

\* every text a lookup of the model is called with: the queries and their
\* refinements
\* counting queries: one per branch of handle_counting_query
CountQueries ==
  { "how many press meet images",
    "How many practice photos",
    "count of match images",
    "number of promotional images",
    "how many images",
    "how many images of Devon Conway",
    "how many press meet images of conway",
    "how many happy images",
    "how many images in the stadium",
    "how many images of players batting",
    "how many practice images of players" }

\* further queries for the retrievers called on their own
RetrieverQueries ==
  { "conway with fleming",
    "conway Stephen Fleming",
    "ali steve",
    "ali batting",
    "Devon Conway standing",
    "conway fielding" }

Texts ==
  Queries \cup UNION {Range(refine_query(q, n)) : q \in Queries, n \in NlpChoices}
    \cup CountQueries \cup {Lower(q) : q \in CountQueries}
    \cup RetrieverQueries \cup {Lower(q) : q \in RetrieverQueries}

-----------------------------------------------------------------------------
(* The metadata store *)

\* SQL NULL / Python None in a text or id column
NULL == "<null>"
\* SQL NULL / Python None in no_of_faces
NullFaces == -1

\* players (player_id, player_name), in table order
players_table ==
  << [player_id |-> "P1", player_name |-> "Stephen Fleming"],
     [player_id |-> "P2", player_name |-> "Devon Conway"],
     [player_id |-> "P3", player_name |-> "Moeen Ali"] >>

action_table ==
  << [id |-> "A1", name |-> "Batting"],
     [id |-> "A2", name |-> "Bowling"],
     [id |-> "A3", name |-> "Celebrating"] >>

event_table ==
  << [id |-> "E1", name |-> "Press Meet"],
     [id |-> "E2", name |-> "Practice"],
     [id |-> "E3", name |-> "Match"] >>

mood_table ==
  << [id |-> "M1", name |-> "Happy"],
     [id |-> "M2", name |-> "Serious"] >>

sublocation_table ==
  << [id |-> "S1", name |-> "Nets"],
     [id |-> "S2", name |-> "Stadium"] >>

\* name of the reference row with this id (LEFT JOIN): NULL when there is none
NameOf(table, id) ==
  IF \E i \in 1..Len(table) : table[i].id = id
  THEN table[CHOOSE i \in 1..Len(table) : table[i].id = id].name
  ELSE NULL

\* rows of cricket_data the store states are drawn from
RowPool ==
  { [id |-> 1, player_id |-> "P1", no_of_faces |-> 2,
     caption |-> "Stephen Fleming and Devon Conway", description |-> NULL,
     focus |-> "coach", shot_type |-> "wide", apparel |-> NULL,
     brands_and_logos |-> NULL, event_id |-> "E2", mood_id |-> "M2",
     action_id |-> NULL, sublocation_id |-> "S1", location |-> NULL,
     time_of_day |-> NULL],
    [id |-> 2, player_id |-> "P1", no_of_faces |-> NullFaces,
     caption |-> "Stephen Fleming with team", description |-> NULL,
     focus |-> NULL, shot_type |-> "close", apparel |-> NULL,
     brands_and_logos |-> NULL, event_id |-> "E1", mood_id |-> "M2",
     action_id |-> NULL, sublocation_id |-> NULL, location |-> NULL,
     time_of_day |-> NULL],
    [id |-> 3, player_id |-> "P2", no_of_faces |-> 1,
     caption |-> "Devon Conway batting", description |-> "conway bats",
     focus |-> NULL, shot_type |-> NULL, apparel |-> NULL,
     brands_and_logos |-> NULL, event_id |-> "E3", mood_id |-> "M1",
     action_id |-> "A1", sublocation_id |-> "S2", location |-> NULL,
     time_of_day |-> NULL],
    [id |-> 4, player_id |-> NULL, no_of_faces |-> 3,
     caption |-> "Team together", description |-> "team together",
     focus |-> NULL, shot_type |-> NULL, apparel |-> NULL,
     brands_and_logos |-> NULL, event_id |-> "E3", mood_id |-> "M1",
     action_id |-> "A3", sublocation_id |-> NULL, location |-> NULL,
     time_of_day |-> NULL],
    [id |-> 5, player_id |-> "P2", no_of_faces |-> 2,
     caption |-> NULL, description |-> "devon conway and fans",
     focus |-> NULL, shot_type |-> NULL, apparel |-> NULL,
     brands_and_logos |-> NULL, event_id |-> NULL, mood_id |-> NULL,
     action_id |-> NULL, sublocation_id |-> NULL, location |-> NULL,
     time_of_day |-> NULL] }

RowById(i) == CHOOSE r \in RowPool : r.id = i

\* the store states: the sets of at most MaxStoreRows rows of the pool
Stores == {S \in SUBSET {r.id : r \in RowPool} : Cardinality(S) <= MaxStoreRows}


\* rows of the store in the order the SELECT returns them (by id), cut to the
\* first k when k > 0 (LIMIT k)
RECURSIVE SortedSeq(_)
SortedSeq(S) ==
  IF S = {} THEN << >>
  ELSE LET m == CHOOSE a \in S : \A b \in S : a <= b
       IN  <<m>> \o SortedSeq(S \ {m})

Limit(seq, k) == IF k > 0 /\ Len(seq) > k THEN SubSeq(seq, 1, k) ELSE seq

\* LOWER(col) LIKE '%t%': not true when the column is NULL
Like(col, t) == col # NULL /\ Contains(Lower(col), t)

\* Python "x or default" on a text column
OrDefault(col, d) == IF col = NULL \/ col = "" THEN d ELSE col

FacesText(n) ==
  IF n = NullFaces \/ n = 0 THEN "0"
  ELSE IF n = 1 THEN "1" ELSE IF n = 2 THEN "2" ELSE "3"

\* page_content of the Document built from a row
page_content(r) ==
  OrDefault(r.caption, "Cricket image")
    \o " Action: " \o OrDefault(NameOf(action_table, r.action_id), "Unknown")
    \o ". Event: " \o OrDefault(NameOf(event_table, r.event_id), "Unknown")
    \o ". Mood: " \o OrDefault(NameOf(mood_table, r.mood_id), "Unknown")
    \o ". Location: " \o OrDefault(NameOf(sublocation_table, r.sublocation_id), "Unknown")
    \o ". Time of day: " \o OrDefault(r.time_of_day, "Unknown")
    \o ". Focus: " \o OrDefault(r.focus, "Unknown")
    \o ". Shot type: " \o OrDefault(r.shot_type, "Unknown")
    \o ". Apparel: " \o OrDefault(r.apparel, "Unknown")
    \o ". Brands and logos: " \o OrDefault(r.brands_and_logos, "None")
    \o ". Number of faces: " \o FacesText(r.no_of_faces)

\* fixed score of every row a SQL lookup returns (0.1)
SqlScore == 1

\* a (document, score) pair; via is a ghost field naming the lookup that
\* produced the pair
\* (a structured lookup that reports a distance of its own)
SqlDocDistance(i) == [id |-> i, score |-> 2, via |-> "sql"]

SqlDoc(i) == [id |-> i, score |-> SqlScore, via |-> "sql"]

SqlDocs(ids, k) ==
  LET seq == Limit(SortedSeq(ids), k)
  IN  [j \in 1..Len(seq) |-> SqlDoc(seq[j])]

-----------------------------------------------------------------------------
(* db_store.py: player recognition *)

\* the entries of name_variations for the players of players_table, in the
\* order of the dict
name_variations ==
  << [name |-> "devon conway",
      variations |-> <<"devon", "conway", "d conway", "d. conway">>],
     [name |-> "moeen ali",
      variations |-> <<"moen ali", "mo ali", "moeen", "moen", "m ali", "m. ali",
                       "moeen", "moin ali", "moin", "mo">>],
     [name |-> "stephen fleming",
      variations |-> <<"fleming", "steve fleming", "stephen", "steve",
                       "s fleming", "s. fleming", "coach", "coach fleming",
                       "head coach">>] >>

\* the copy of name_variations in get_images_with_multiple_players
name_variations_multi ==
  << [name |-> "devon conway",
      variations |-> <<"devon", "conway", "d conway", "d. conway">>],
     [name |-> "moeen ali",
      variations |-> <<"moen ali", "mo ali", "moeen", "moen", "m ali", "m. ali">>],
     [name |-> "stephen fleming",
      variations |-> <<"fleming", "steve fleming", "stephen", "steve",
                       "s fleming", "s. fleming">>] >>

player_names == [i \in 1..Len(players_table) |-> Lower(players_table[i].player_name)]

AppendNew(seq, e) == IF e \in Range(seq) THEN seq ELSE Append(seq, e)

\* a first or a last name of a name of several parts occurs as a whole word
PartialMatch(name, query_lower) ==
  LET name_parts == Split(name)
  IN  /\ Len(name_parts) > 1
      /\ \/ WholeWord(query_lower, name_parts[1])
         \/ WholeWord(query_lower, name_parts[Len(name_parts)])

VariationMatch(entry, query_lower) ==
  Contains(query_lower, entry.name) \/ ContainsAny(query_lower, entry.variations)

RECURSIVE ExactNames(_, _, _)
ExactNames(query_lower, found, i) ==
  IF i > Len(player_names) THEN found
  ELSE ExactNames(query_lower,
                  IF Contains(query_lower, player_names[i])
                  THEN AppendNew(found, player_names[i]) ELSE found,
                  i + 1)

RECURSIVE VariationNames(_, _, _)
VariationNames(query_lower, found, i) ==
  IF i > Len(name_variations) THEN found
  ELSE VariationNames(query_lower,
                      IF VariationMatch(name_variations[i], query_lower)
                      THEN AppendNew(found, name_variations[i].name) ELSE found,
                      i + 1)

RECURSIVE PartialNames(_, _, _)
PartialNames(query_lower, found, i) ==
  IF i > Len(player_names) THEN found
  ELSE PartialNames(query_lower,
                    IF PartialMatch(player_names[i], query_lower)
                    THEN AppendNew(found, player_names[i]) ELSE found,
                    i + 1)

\* the body of get_player_names_in_query: exact names, then name variations,
\* then first-name / last-name whole-word matches
player_names_in_query(query) ==
  LET query_lower == Lower(query)
  IN  PartialNames(query_lower,
        VariationNames(query_lower, ExactNames(query_lower, << >>, 1), 1), 1)

\* get_player_names_in_query, tabulated once over the texts of the model
found_players_of == [t \in Texts |-> player_names_in_query(t)]
get_player_names_in_query(query) == found_players_of[query]

is_player_query(query) == Len(get_player_names_in_query(query)) > 0

press_terms == <<"press meet", "press conference", "media", "interview", "press">>
is_press_meet_query(query) == ContainsAny(Lower(query), press_terms)

practice_terms == <<"practice", "training", "net session", "nets">>
is_practice_query(query) == ContainsAny(Lower(query), practice_terms)

-----------------------------------------------------------------------------
(* db_store.py: the optional action / location filters of the player paths *)

action_terms == <<"batting", "bowling", "fielding", "celebrating", "wicket keeping">>
mood_terms == <<"happy", "serious", "celebrating", "smiling", "intense">>
location_terms == <<"stadium", "field", "nets", "dressing room", "press room">>

\* SELECT id FROM table WHERE LOWER(name) LIKE '%term%'
IdsLike(table, term) ==
  {table[i].id : i \in {j \in 1..Len(table) : Contains(Lower(table[j].name), Lower(term))}}

\* the filter of the first of the given terms (hits: their indices); on =
\* FALSE when there is none (no clause is added)
FirstHit(table, terms, hits) ==
  IF hits = {} THEN [on |-> FALSE, ids |-> {}]
  ELSE [on |-> TRUE, ids |-> IdsLike(table, terms[MinOf(hits)])]

\* the ids of the first term of terms that occurs in the query and matches a
\* reference row
TermFilter(table, terms, query_lower) ==
  FirstHit(table, terms,
           {i \in 1..Len(terms) :
              Contains(query_lower, terms[i]) /\ IdsLike(table, terms[i]) # {}})

\* " AND c.<col> IN (...)": a NULL id is in no list
InClause(f, id) == f.on => (id # NULL /\ id \in f.ids)

action_clause(query_lower, r) ==
  InClause(TermFilter(action_table, action_terms, query_lower), r.action_id)

location_clause(query_lower, r) ==
  InClause(TermFilter(sublocation_table, location_terms, query_lower), r.sublocation_id)

-----------------------------------------------------------------------------
(* db_store.py: get_images_with_multiple_players *)

group_photo_terms ==
  <<"group photo", "team photo", "players together", "group of players",
    "multiple players">>
general_terms == <<"players", "team", "group", "together", "multiple">>
together_terms ==
  <<"together", "same frame", "single frame", "with each other",
    "standing together", "group", "team">>
multiple_player_terms == <<"players", "team", "group", "together", "multiple">>

\* player ids of the identified names, in order, without repetition
RECURSIVE IdsOfNames(_, _, _)
IdsOfNames(names, ids, i) ==
  IF i > Len(names) THEN ids
  ELSE LET hit == {j \in 1..Len(players_table) : player_names[j] = names[i]}
       IN  IdsOfNames(names,
                      IF hit = {} THEN ids
                      ELSE AppendNew(ids, players_table[MinOf(hit)].player_id),
                      i + 1)

RECURSIVE FallbackExact(_, _, _)
FallbackExact(query_lower, ids, i) ==
  IF i > Len(players_table) THEN ids
  ELSE FallbackExact(query_lower,
                     IF Contains(query_lower, player_names[i])
                     THEN Append(ids, players_table[i].player_id) ELSE ids,
                     i + 1)

RECURSIVE FallbackVariations(_, _, _)
FallbackVariations(query_lower, ids, i) ==
  IF i > Len(name_variations_multi) THEN ids
  ELSE LET e == name_variations_multi[i]
           hit == {j \in 1..Len(players_table) :
                     \/ player_names[j] = e.name
                     \/ player_names[j] \in Range(e.variations)}
       IN  FallbackVariations(query_lower,
             IF VariationMatch(e, query_lower) /\ hit # {}
             THEN AppendNew(ids, players_table[MinOf(hit)].player_id) ELSE ids,
             i + 1)

RECURSIVE FallbackPartial(_, _, _)
FallbackPartial(query_lower, ids, i) ==
  IF i > Len(players_table) THEN ids
  ELSE FallbackPartial(query_lower,
         IF players_table[i].player_id \notin Range(ids)
            /\ PartialMatch(player_names[i], query_lower)
         THEN Append(ids, players_table[i].player_id) ELSE ids,
         i + 1)

\* mentioned_player_ids: from get_player_names_in_query, else the old method
ids_or_fallback(query_lower, ids) ==
  IF ids # << >> THEN ids
  ELSE FallbackPartial(query_lower,
         FallbackVariations(query_lower,
           FallbackExact(query_lower, << >>, 1), 1), 1)

mentioned_player_ids(query) ==
  ids_or_fallback(Lower(query), IdsOfNames(get_player_names_in_query(query), << >>, 1))

\* player_names of the function: the lower-cased name of each mentioned id
NamesOfIds(ids) ==
  [i \in 1..Len(ids) |->
     player_names[MinOf({j \in 1..Len(players_table) :
                           players_table[j].player_id = ids[i]})]]

is_group_photo_query(query_lower) == ContainsAny(query_lower, group_photo_terms)

\* the words of more than 3 letters of the group-photo terms in the query
GroupTermParts(query_lower) ==
  UNION { {w \in Range(Split(group_photo_terms[i])) : Len(w) > 3} :
            i \in {j \in 1..Len(group_photo_terms) :
                     Contains(query_lower, group_photo_terms[j])} }

\* LOWER(c.caption) LIKE '%t%' OR LOWER(c.description) LIKE '%t%'
TextLike(r, t) == Like(r.caption, t) \/ Like(r.description, t)

\* player_clause before the together-term extension
player_clause(query_lower, names, r) ==
  IF is_group_photo_query(query_lower)
  THEN \/ \E i \in 1..Len(general_terms) : TextLike(r, general_terms[i])
       \/ \E t \in GroupTermParts(query_lower) : TextLike(r, t)
  ELSE IF Len(names) >= 1
  THEN \E i \in 1..Len(names) : TextLike(r, names[i])
  ELSE \E i \in 1..Len(general_terms) : TextLike(r, general_terms[i])

\* the OR-extension with the together terms that occur in the query
together_term_clause(query_lower, r) ==
  \E i \in 1..Len(together_terms) :
     Contains(query_lower, together_terms[i]) /\ TextLike(r, together_terms[i])

\* a SELECT without the face-count condition
any_face_count(r) == TRUE

\* " AND c.no_of_faces >= 2": not true for a NULL face count
together_clause(r) == r.no_of_faces # NullFaces /\ r.no_of_faces >= 2

\* WHERE ({player_clause}){action_clause}{location_clause}{together_clause}
multi_where_clause(query_lower, names, r) ==
  /\ (player_clause(query_lower, names, r) \/ together_term_clause(query_lower, r))
  /\ action_clause(query_lower, r)
  /\ location_clause(query_lower, r)
  /\ together_clause(r)

\* the first guard of the verification pass: queries asking for players together
together_query(query_lower) ==
  \/ Contains(query_lower, "together") \/ Contains(query_lower, "and")
  \/ Contains(query_lower, "&") \/ Contains(query_lower, "same frame")
  \/ Contains(query_lower, "single frame")

\* a verification pass that takes every row as mentioning a player
no_player_check(names, caption, description) == TRUE

\* any_player_present of the verification pass
any_player_present(names, caption, description) ==
  \E i \in 1..Len(names) :
     LET name_lower == names[i]
         name_parts == Split(name_lower)
     IN  \/ Contains(caption, name_lower) \/ Contains(description, name_lower)
         \/ /\ Len(name_parts) > 1
            /\ \/ /\ Contains(caption, name_parts[1])
                  /\ Contains(caption, name_parts[Len(name_parts)])
               \/ /\ Contains(description, name_parts[1])
                  /\ Contains(description, name_parts[Len(name_parts)])

\* has_multiple_player_terms of the verification pass
has_multiple_player_terms(caption, description) ==
  \E i \in 1..Len(multiple_player_terms) :
     \/ Contains(caption, multiple_player_terms[i])
     \/ Contains(description, multiple_player_terms[i])

\* "no_of_faces is None or no_of_faces < 2"
few_faces(no_of_faces) == no_of_faces = NullFaces \/ no_of_faces < 2

\* the checks of the verification pass on the texts and face count of a row
verified_texts(query_lower, names, caption, description, no_of_faces) ==
  /\ ~(together_query(query_lower) /\ few_faces(no_of_faces))
  /\ (Len(names) > 0 => any_player_present(names, caption, description))
  /\ IF \/ Contains(query_lower, "together") \/ Contains(query_lower, "and")
        \/ Contains(query_lower, "&") \/ Contains(query_lower, "same frame")
     THEN IF has_multiple_player_terms(caption, description)
          THEN ~few_faces(no_of_faces) ELSE no_of_faces >= 2
     ELSE TRUE

\* one row of the verification pass: TRUE when the row is kept
verified(query_lower, names, r) ==
  verified_texts(query_lower, names, Lower(r.caption), Lower(page_content(r)),
                 r.no_of_faces)

\* get_images_with_multiple_players(query, k) on a store: the returned
\* pairs, or raised = TRUE when the verification pass meets a selected row
\* whose caption is None (None.lower())
SqlDocsOf(kept) ==
  [docs |-> [j \in 1..Len(kept) |-> SqlDoc(kept[j])], raised |-> FALSE]

\* the verification pass over the selected rows
verified_results(query_lower, names, selected) ==
  IF \E j \in 1..Len(selected) : RowById(selected[j]).caption = NULL
  THEN [docs |-> << >>, raised |-> TRUE]
  ELSE SqlDocsOf(SelectIdx(selected,
                  {j \in 1..Len(selected) :
                     verified(query_lower, names, RowById(selected[j]))}, 1))

\* the SELECT of the function and the verification of its rows
multi_select(query_lower, names, k, store) ==
  verified_results(query_lower, names,
    Limit(SortedSeq({i \in store : multi_where_clause(query_lower, names, RowById(i))}), k))

\* the function from the mentioned player ids on
multi_from_ids(query_lower, ids, k, store) ==
  IF Len(ids) < 2 /\ ~is_group_photo_query(query_lower)
  THEN [docs |-> << >>, raised |-> FALSE]
  ELSE multi_select(query_lower, NamesOfIds(ids), k, store)

get_images_with_multiple_players(query, k, store) ==
  multi_from_ids(Lower(query), mentioned_player_ids(query), k, store)

-----------------------------------------------------------------------------
(* db_store.py: the single-player path and the single-category lookups *)

NoDocs == [docs |-> << >>, raised |-> FALSE]
Found(docs) == [docs |-> docs, raised |-> FALSE]

solo_terms == <<"solo", "alone", "individual", "single", "by himself", "by herself">>

\* the three tiers that resolve the player id; NULL when no tier does
\* the tiers with the alias table consulted before the canonical names
player_id_alias_first(query_lower) ==
  LET exact == {i \in 1..Len(players_table) : Contains(query_lower, player_names[i])}
      varhit == {i \in 1..Len(name_variations) :
                   /\ VariationMatch(name_variations[i], query_lower)
                   /\ \E j \in 1..Len(players_table) :
                        \/ player_names[j] = name_variations[i].name
                        \/ player_names[j] \in Range(name_variations[i].variations)}
  IN  IF varhit # {}
      THEN players_table[MinOf({j \in 1..Len(players_table) :
             \/ player_names[j] = name_variations[MinOf(varhit)].name
             \/ player_names[j] \in Range(name_variations[MinOf(varhit)].variations)})].player_id
      ELSE IF exact # {} THEN players_table[MinOf(exact)].player_id
      ELSE NULL

player_id_tiers(query_lower) ==
  LET exact == {i \in 1..Len(players_table) : Contains(query_lower, player_names[i])}
      varhit == {i \in 1..Len(name_variations) :
                   /\ VariationMatch(name_variations[i], query_lower)
                   /\ \E j \in 1..Len(players_table) :
                        \/ player_names[j] = name_variations[i].name
                        \/ player_names[j] \in Range(name_variations[i].variations)}
      partial == {i \in 1..Len(players_table) : PartialMatch(player_names[i], query_lower)}
  IN  IF exact # {} THEN players_table[MinOf(exact)].player_id
      ELSE IF varhit # {}
      THEN LET e == name_variations[MinOf(varhit)]
           IN  players_table[MinOf({j \in 1..Len(players_table) :
                                      \/ player_names[j] = e.name
                                      \/ player_names[j] \in Range(e.variations)})].player_id
      ELSE IF partial # {} THEN players_table[MinOf(partial)].player_id
      ELSE NULL

\* the resolved player id, tabulated once over the texts of the model
player_id_of == [t \in {Lower(u) : u \in Texts} |-> player_id_tiers(t)]
resolve_player_id(query_lower) == player_id_of[query_lower]

\* WHERE c.player_id = %s{action_clause}{location_clause}{solo_clause}
player_where_clause(query_lower, player_id, r) ==
  /\ r.player_id = player_id
  /\ action_clause(query_lower, r)
  /\ location_clause(query_lower, r)
  /\ (ContainsAny(query_lower, solo_terms) => r.no_of_faces = 1)

\* the SELECT of the single-player path; no rows when no tier found a player
images_of_player(query_lower, player_id, k, store) ==
  IF player_id = NULL THEN NoDocs
  ELSE Found(SqlDocs({i \in store :
               player_where_clause(query_lower, player_id, RowById(i))}, k))

\* "Check if this is a query for multiple players"
several_players_named(query_lower) ==
  /\ \/ Contains(query_lower, "and") \/ Contains(query_lower, "&")
     \/ Contains(query_lower, ",")
  /\ \E i \in 1..Len(players_table) : Contains(query_lower, player_names[i])

player_name_from(query, query_lower, k, store) ==
  IF several_players_named(query_lower)
  THEN get_images_with_multiple_players(query, k, store)
  ELSE images_of_player(query_lower, resolve_player_id(query_lower), k, store)

get_images_by_player_name(query, k, store) ==
  player_name_from(query, Lower(query), k, store)

\* WHERE e.event_name = 'Press Meet'
get_images_by_press_meet(k, store) ==
  Found(SqlDocs({i \in store : NameOf(event_table, RowById(i).event_id) = "Press Meet"}, k))

\* WHERE e.event_name = 'Practice'
get_images_by_practice(k, store) ==
  Found(SqlDocs({i \in store : NameOf(event_table, RowById(i).event_id) = "Practice"}, k))

get_images_by_action(action_name, k, store) ==
  LET ids == IdsLike(action_table, action_name)
  IN  IF ids = {} THEN NoDocs
      ELSE Found(SqlDocs({i \in store : RowById(i).action_id \in ids}, k))

get_images_by_mood(mood_name, k, store) ==
  LET ids == IdsLike(mood_table, mood_name)
  IN  IF ids = {} THEN NoDocs
      ELSE Found(SqlDocs({i \in store : RowById(i).mood_id \in ids}, k))

get_images_by_location(location_name, k, store) ==
  LET ids == IdsLike(sublocation_table, location_name)
  IN  IF ids # {}
      THEN Found(SqlDocs({i \in store : RowById(i).sublocation_id \in ids}, k))
      ELSE Found(SqlDocs({i \in store : Like(RowById(i).location, Lower(location_name))}, k))

\* activity_mapping, in the order of the dict
activity_mapping ==
  << [activity |-> "traveling",
      keywords |-> <<"travel", "bus", "airport", "plane", "flight", "journey",
                     "arrival", "departure">>],
     [activity |-> "celebrating",
      keywords |-> <<"celebrate", "celebration", "trophy", "win", "victory",
                     "champagne", "party">>],
     [activity |-> "training",
      keywords |-> <<"training", "practice", "drill", "exercise", "warm-up",
                     "warm up", "net session", "nets">>],
     [activity |-> "meeting fans",
      keywords |-> <<"fan", "fans", "autograph", "selfie", "crowd", "spectator",
                     "supporter">>],
     [activity |-> "press conference",
      keywords |-> <<"press", "media", "interview", "microphone", "journalist",
                     "reporter", "conference", "press meeting">>],
     [activity |-> "team huddle",
      keywords |-> <<"huddle", "team talk", "gathering", "group", "circle",
                     "meeting", "discussion">>],
     [activity |-> "eating",
      keywords |-> <<"meal", "dinner", "lunch", "breakfast", "restaurant", "food",
                     "eating", "dining">>],
     [activity |-> "relaxing",
      keywords |-> <<"relax", "leisure", "hotel", "pool", "beach", "rest", "break",
                     "downtime">>] >>

get_images_by_activity(query, k, store) ==
  LET query_lower == Lower(query)
      hits == {i \in 1..Len(activity_mapping) :
                 \/ Contains(query_lower, activity_mapping[i].activity)
                 \/ ContainsAny(query_lower, activity_mapping[i].keywords)}
  IN  IF hits = {} THEN NoDocs
      ELSE LET kw == activity_mapping[MinOf(hits)].keywords
           IN  Found(SqlDocs({i \in store :
                  \E j \in 1..Len(kw) :
                     \/ Like(RowById(i).caption, kw[j])
                     \/ Like(RowById(i).description, kw[j])
                     \/ Like(RowById(i).focus, kw[j])}, k))

get_images_by_keywords(keywords, k, store) ==
  IF keywords = << >> THEN NoDocs
  ELSE Found(SqlDocs({i \in store :
         \E j \in 1..Len(keywords) :
            LET kw == Lower(keywords[j])
                r == RowById(i)
            IN  \/ Like(r.caption, kw) \/ Like(r.description, kw)
                \/ Like(r.focus, kw) \/ Like(r.shot_type, kw)
                \/ Like(r.apparel, kw) \/ Like(r.brands_and_logos, kw)}, k))

-----------------------------------------------------------------------------
(* The embedding backend and vector index (external): the cosine distance  *)
(* between a text and a stored document.  An embedding world emb names one *)
(* text, the documents near it and their distance; every other pair is far *)

\* distance, in tenths, of a document that is not near the query text
FarDist == 9

DistOf(emb, text, id) ==
  IF text = emb.text /\ id \in emb.near THEN emb.dist ELSE FarDist

\* ORDER BY e.embedding <=> query: ascending distance (ties by id)
RECURSIVE OrderByDistance(_, _, _)
OrderByDistance(S, emb, text) ==
  IF S = {} THEN << >>
  ELSE LET m == CHOOSE a \in S : \A b \in S :
                  \/ DistOf(emb, text, a) < DistOf(emb, text, b)
                  \/ (DistOf(emb, text, a) = DistOf(emb, text, b) /\ a <= b)
       IN  <<m>> \o OrderByDistance(S \ {m}, emb, text)

-----------------------------------------------------------------------------
(* db_store.py: similarity_search; vector_store.py: get_similar_images *)

\* the pgvector query: LIMIT k without a threshold when k > 0, else the
\* rows whose similarity 1 - distance reaches the threshold
vector_rows(k, text, similarity_threshold, store, emb) ==
  IF k > 0
  THEN Limit(OrderByDistance(store, emb, text), k)
  ELSE OrderByDistance({i \in store : 10 - DistOf(emb, text, i) >= similarity_threshold},
                       emb, text)

\* the (document, distance) pairs of the rows of the vector query
vector_docs(rows, query_text, emb) ==
  Found([j \in 1..Len(rows) |->
           [id |-> rows[j], score |-> DistOf(emb, query_text, rows[j]),
            via |-> "vector"]])

\* "if results: return results", else the next lookup
OrElse(results, otherwise) ==
  IF results.raised \/ results.docs # << >> THEN results ELSE otherwise

\* the SQL lookups for player, press-meet and practice queries, then the
\* vector query
similarity_search(k, query_text, similarity_threshold, store, emb) ==
  OrElse(IF is_player_query(query_text)
         THEN get_images_by_player_name(query_text, k, store) ELSE NoDocs,
    OrElse(IF is_press_meet_query(query_text)
           THEN get_images_by_press_meet(k, store) ELSE NoDocs,
      OrElse(IF is_practice_query(query_text)
             THEN get_images_by_practice(k, store) ELSE NoDocs,
        vector_docs(vector_rows(k, query_text, similarity_threshold, store, emb),
                    query_text, emb))))

\* "except Exception: return []"
OrEmpty(res) == IF res.raised THEN << >> ELSE res.docs

\* get_similar_images: the result of similarity_search, [] when it raised
get_similar_images(query, k, similarity_threshold, store, emb) ==
  OrEmpty(similarity_search(k, query, similarity_threshold, store, emb))

-----------------------------------------------------------------------------
(* llm_service.py: get_images_by_sql_query *)

\* nltk.pos_tag (external): the words of the model's vocabulary that are
\* tagged neither NN* nor JJ*; every other word is tagged as a noun
not_noun_or_adjective ==
  {"show", "me", "of", "and", "the", "a", "in", "with", "how", "what", "is",
   "are", "there", "all", "together", "&", "find", "at"}

extract_keywords(query_lower) ==
  LET tokens == Split(query_lower)
  IN  SelectIdx(tokens, {i \in 1..Len(tokens) : tokens[i] \notin not_noun_or_adjective}, 1)

activity_terms ==
  <<"traveling", "travel", "journey", "celebrating", "training", "meeting fans",
    "press conference", "team huddle", "eating", "relaxing">>

\* threshold of the similarity fallback of the player step (0.3)
MultiThreshold == 3

Skip == [trace |-> << >>, docs |-> << >>, raised |-> FALSE]
Tried(name, res) == [trace |-> <<name>>, docs |-> res.docs, raised |-> res.raised]

\* "Check for multiple players": the connector test of the player step
multiple_players_connector(query_lower) ==
  \/ Contains(query_lower, " and ") \/ Contains(query_lower, "&")
  \/ Contains(query_lower, "together") \/ Contains(query_lower, "same frame")
  \/ Contains(query_lower, "single frame")

\* "[(doc, score) for doc, score in similar_images if
\* doc.metadata.get('no_of_faces', 0) >= 2]"
with_two_faces(found) ==
  SelectIdx(found,
    {j \in 1..Len(found) :
       /\ RowById(found[j].id).no_of_faces # NullFaces
       /\ RowById(found[j].id).no_of_faces >= 2}, 1)

\* the similarity results with at least 2 faces (threshold 0.3)
filtered_images(query, store, emb) ==
  with_two_faces(get_similar_images(query, 0, MultiThreshold, store, emb))

\* the player step after the multi-person lookup and the similarity fallback
after_similar(filtered, single) ==
  IF filtered # << >>
  THEN [trace |-> <<"multi", "similar">>, docs |-> filtered, raised |-> FALSE]
  ELSE [trace |-> <<"multi", "similar", "single">>,
        docs |-> single.docs, raised |-> single.raised]

after_multi(multi, filtered, single) ==
  IF multi.raised \/ multi.docs # << >> THEN Tried("multi", multi)
  ELSE after_similar(filtered, single)

\* the player step of the dispatch
player_step(query, k, store, emb) ==
  IF ~is_player_query(query) THEN Skip
  ELSE IF multiple_players_connector(Lower(query))
  THEN after_multi(get_images_with_multiple_players(query, k, store),
                   filtered_images(query, store, emb),
                   get_images_by_player_name(query, k, store))
  ELSE Tried("single", get_images_by_player_name(query, k, store))

\* a loop "for term in terms: if term in query: results = F(term); if
\* results: return results"
RECURSIVE term_loop(_, _, _, _, _, _)
term_loop(name, terms, table, query_lower, i, acc) ==
  IF i > Len(terms) THEN acc
  ELSE IF ~Contains(query_lower, terms[i])
  THEN term_loop(name, terms, table, query_lower, i + 1, acc)
  ELSE IF table[terms[i]].docs # << >>
  THEN [trace |-> Append(acc.trace, name), docs |-> table[terms[i]].docs,
        raised |-> FALSE]
  ELSE term_loop(name, terms, table, query_lower, i + 1,
                 [trace |-> Append(acc.trace, name), docs |-> << >>, raised |-> FALSE])

\* the result of step i of the dispatch for the query
dispatch_step(i, query, k, store, emb) ==
  LET query_lower == Lower(query)
  IN  CASE i = 1 ->
             IF ContainsAny(query_lower, group_photo_terms)
             THEN Tried("group", get_images_with_multiple_players(query, k, store))
             ELSE Skip
        [] i = 2 -> player_step(query, k, store, emb)
        [] i = 3 ->
             IF is_press_meet_query(query)
             THEN Tried("press", get_images_by_press_meet(k, store)) ELSE Skip
        [] i = 4 ->
             IF is_practice_query(query)
             THEN Tried("practice", get_images_by_practice(k, store)) ELSE Skip
        [] i = 5 ->
             term_loop("action", action_terms,
                       [t \in Range(action_terms) |-> get_images_by_action(t, k, store)],
                       query_lower, 1, Skip)
        [] i = 6 ->
             term_loop("mood", mood_terms,
                       [t \in Range(mood_terms) |-> get_images_by_mood(t, k, store)],
                       query_lower, 1, Skip)
        [] i = 7 ->
             term_loop("location", location_terms,
                       [t \in Range(location_terms) |-> get_images_by_location(t, k, store)],
                       query_lower, 1, Skip)
        [] i = 8 ->
             IF ContainsAny(query_lower, activity_terms)
             THEN Tried("activity", get_images_by_activity(query, k, store)) ELSE Skip
        [] OTHER ->
             IF extract_keywords(query_lower) # << >>
             THEN Tried("keyword",
                        get_images_by_keywords(extract_keywords(query_lower), k, store))
             ELSE Skip

LastStep == 9

\* the dispatch from step i on: the first step with a non-empty result (or
\* an exception) ends it; trace lists the lookups performed, in order
RECURSIVE dispatch_from(_, _, _, _, _, _)
\* (a dispatch that goes on after a step with results)
after_step_no_stop(i, out, query, k, store, emb, trace) ==
  dispatch_from(i + 1, query, k, store, emb, trace \o out.trace)

\* "if results: return results" after step i
after_step(i, out, query, k, store, emb, trace) ==
  IF out.raised \/ out.docs # << >>
  THEN [trace |-> trace \o out.trace, docs |-> out.docs, raised |-> out.raised]
  ELSE dispatch_from(i + 1, query, k, store, emb, trace \o out.trace)

dispatch_from(i, query, k, store, emb, trace) ==
  IF i > LastStep THEN [trace |-> trace, docs |-> << >>, raised |-> FALSE]
  ELSE after_step(i, dispatch_step(i, query, k, store, emb), query, k, store, emb, trace)

get_images_by_sql_query(query, k, store, emb) ==
  dispatch_from(1, query, k, store, emb, << >>)

-----------------------------------------------------------------------------
(* llm_service.py: query classification *)

count_patterns ==
  <<"how many", "count of", "number of", "total number", "total count", "count",
    "tally", "quantity", "sum">>
tabular_patterns ==
  <<"table", "list all", "show all", "display all", "summarize", "summary of",
    "statistics", "stats", "breakdown", "compare", "comparison">>
descriptive_patterns ==
  <<"describe", "explain", "tell me about", "what is", "who is", "when", "where",
    "why", "how does", "details about", "information on">>
image_patterns ==
  <<"show", "display", "image", "picture", "photo", "see", "view", "look at">>

is_counting_query(query) == ContainsAny(Lower(query), count_patterns)
is_tabular_query(query) == ContainsAny(Lower(query), tabular_patterns)
is_image_query(query) ==
  ContainsAny(Lower(query), image_patterns) /\ ~is_counting_query(Lower(query))
is_descriptive_query(query) ==
  \/ ContainsAny(Lower(query), descriptive_patterns)
  \/ (~is_counting_query(Lower(query)) /\ ~is_image_query(Lower(query)))

\* (the tabular patterns tried before the counting patterns)
classify_tabular_first(query) ==
  IF is_tabular_query(query) THEN "tabular"
  ELSE IF is_counting_query(query) THEN "counting"
  ELSE IF is_descriptive_query(query) THEN "descriptive"
  ELSE "image"

classify_query_type(query) ==
  IF is_counting_query(query) THEN "counting"
  ELSE IF is_tabular_query(query) THEN "tabular"
  ELSE IF is_descriptive_query(query) THEN "descriptive"
  ELSE "image"

practice_image_patterns ==
  <<"practice image", "practice picture", "practice photo", "training image",
    "training picture", "training photo">>
player_patterns ==
  <<"player", "cricketer", "batsman", "bowler", "all-rounder", "all rounder">>

is_practice_images_query(query) ==
  /\ ContainsAny(Lower(query), practice_image_patterns)
  /\ ContainsAny(Lower(query), player_patterns)

\* generate_response_text: the query asks for several players together
response_multiple_player_terms ==
  <<"and", "&", "with", "together", "same frame", "single frame", "standing together">>

is_multiple_players_query(query) ==
  /\ ContainsAny(Lower(query), response_multiple_player_terms)
  /\ is_player_query(Lower(query))

-----------------------------------------------------------------------------
(* llm_service.py: handle_counting_query; db_store.py: get_count_from_db *)

EventRows(store, event_name) ==
  {i \in store : NameOf(event_table, RowById(i).event_id) = event_name}

get_count_from_db(count_type, store) ==
  IF count_type = "press_meet" THEN Cardinality(EventRows(store, "Press Meet"))
  ELSE IF count_type = "practice" THEN Cardinality(EventRows(store, "Practice"))
  ELSE IF count_type = "match" THEN Cardinality(EventRows(store, "Match"))
  ELSE IF count_type = "promotional"
  THEN Cardinality(EventRows(store, "Promotional Event"))
  ELSE IF count_type = "total" THEN Cardinality(store)
  ELSE 0

Counted(what, n) == [kind |-> "count", of |-> what, count |-> n]
NoCount == [kind |-> "none"]

\* "for name in players.keys(): if name in query_lower": the first player
\* whose full name is in the query
named_players(query_lower) ==
  {i \in 1..Len(player_names) : Contains(query_lower, player_names[i])}

player_count(query_lower, store) ==
  IF ~is_player_query(query_lower) \/ named_players(query_lower) = {} THEN NoCount
  ELSE Counted("player",
               Cardinality({i \in store : RowById(i).player_id
                              = players_table[MinOf(named_players(query_lower))].player_id}))

\* the terms of the loop that are in the query and have reference rows
counted_terms(terms, table, query_lower) ==
  {i \in 1..Len(terms) : Contains(query_lower, terms[i]) /\ IdsLike(table, terms[i]) # {}}

action_count(query_lower, store) ==
  IF counted_terms(action_terms, action_table, query_lower) = {} THEN NoCount
  ELSE Counted("action",
               Cardinality({i \in store : RowById(i).action_id \in
                 IdsLike(action_table,
                         action_terms[MinOf(counted_terms(action_terms, action_table,
                                                          query_lower))])}))

\* the event-specific count: assigned to count and response, not returned
event_type_of(query_lower) ==
  IF ContainsAny(query_lower, <<"press meet", "press conference", "media">>)
  THEN "press_meet"
  ELSE IF ContainsAny(query_lower, <<"practice", "training", "net session">>)
  THEN "practice"
  ELSE IF ContainsAny(query_lower, <<"match", "game", "fixture">>) THEN "match"
  ELSE IF ContainsAny(query_lower, <<"promotional", "promotion", "marketing">>)
  THEN "promotional"
  ELSE "none"

event_count(query_lower, store) ==
  IF event_type_of(query_lower) = "none" THEN NoCount
  ELSE Counted(event_type_of(query_lower),
               get_count_from_db(event_type_of(query_lower), store))

mood_count(query_lower, store) ==
  IF counted_terms(mood_terms, mood_table, query_lower) = {} THEN NoCount
  ELSE Counted("mood",
               Cardinality({i \in store : RowById(i).mood_id \in
                 IdsLike(mood_table,
                         mood_terms[MinOf(counted_terms(mood_terms, mood_table,
                                                        query_lower))])}))

\* the first location term in the query returns, with or without
\* sublocation rows
location_count(query_lower, store) ==
  IF ~ContainsAny(query_lower, location_terms) THEN NoCount
  ELSE Counted("location",
               Cardinality(Range(get_images_by_location(
                 location_terms[MinOf({i \in 1..Len(location_terms) :
                                        Contains(query_lower, location_terms[i])})],
                 0, store).docs)))

\* from the mood loop on: response is what the event branch assigned; the
\* default assigns count and response again
count_after_event(response, query_lower, store) ==
  IF mood_count(query_lower, store) # NoCount THEN mood_count(query_lower, store)
  ELSE IF location_count(query_lower, store) # NoCount
  THEN location_count(query_lower, store)
  ELSE Counted("total", get_count_from_db("total", store))

handle_counting_query(query, store) ==
  IF player_count(Lower(query), store) # NoCount
  THEN player_count(Lower(query), store)
  ELSE IF action_count(Lower(query), store) # NoCount
  THEN action_count(Lower(query), store)
  ELSE count_after_event(event_count(Lower(query), store), Lower(query), store)

-----------------------------------------------------------------------------
(* query_refinement.py: load_reference_data and the variation generators.  *)
(* The reference files are records of name lists; a generator returns       *)
(* list(set(variations)), modelled as the set                               *)

RECURSIVE Upper(_)
\* str.upper()
Upper(s) ==
  IF s = "" THEN ""
  ELSE (IF \E i \in 1..26 : SubSeq(LowerChars, i, i) = SubSeq(s, 1, 1)
        THEN SubSeq(UpperChars,
                    CHOOSE i \in 1..26 : SubSeq(LowerChars, i, i) = SubSeq(s, 1, 1),
                    CHOOSE i \in 1..26 : SubSeq(LowerChars, i, i) = SubSeq(s, 1, 1))
        ELSE SubSeq(s, 1, 1))
       \o Upper(SubSeq(s, 2, Len(s)))

RECURSIVE Strip(_)
\* str.strip() (blanks)
Strip(s) ==
  IF s = "" THEN ""
  ELSE IF SubSeq(s, 1, 1) = " " THEN Strip(SubSeq(s, 2, Len(s)))
  ELSE IF SubSeq(s, Len(s), Len(s)) = " " THEN Strip(SubSeq(s, 1, Len(s) - 1))
  ELSE s

RECURSIVE JoinWith(_, _)
\* sep.join(words)
JoinWith(sep, ws) ==
  IF ws = << >> THEN ""
  ELSE IF Len(ws) = 1 THEN ws[1]
  ELSE ws[1] \o sep \o JoinWith(sep, Tail(ws))

\* [part[0] for part in name_parts[:-1]]
first_letters(name_parts) ==
  [i \in 1..(Len(name_parts) - 1) |-> SubSeq(name_parts[i], 1, 1)]

\* the variations built from the initials before and the last part
initial_variations(initials, period_initials, last) ==
  { initials \o " " \o last, initials \o last, initials \o "." \o last,
    Lower(initials \o " " \o last), Lower(initials \o last),
    Lower(initials \o "." \o last),
    period_initials \o " " \o last, period_initials \o last,
    Lower(period_initials \o " " \o last), Lower(period_initials \o last) }

special_player_variations(upper_name) ==
  IF upper_name = "FAF DU PLESSIS" THEN {"faf", "du plessis", "duplessis", "faf duplessis"}
  ELSE IF upper_name = "MOEEN ALI" THEN {"moen ali", "mo ali", "moeen", "moen"}
  ELSE IF upper_name = "JP KING" THEN {"j.p. king", "j p king", "j.p king", "jp", "king"}
  ELSE IF upper_name = "STEPHEN FLEMING"
  THEN {"fleming", "steve fleming", "stephen", "steve"}
  ELSE {}

player_variations_of(name, name_parts) ==
  {name, Lower(name)}
    \cup (IF Contains(name, " ")
          THEN {JoinWith("", Split(name)), JoinWith("", Split(Lower(name)))} ELSE {})
    \cup (IF Len(name_parts) > 1
          THEN {name_parts[1], Lower(name_parts[1]),
                name_parts[Len(name_parts)], Lower(name_parts[Len(name_parts)])}
               \cup initial_variations(JoinWith("", first_letters(name_parts)),
                                       JoinWith(".", first_letters(name_parts)) \o ".",
                                       name_parts[Len(name_parts)])
          ELSE {})
    \cup special_player_variations(Upper(name))

generate_player_name_variations(player_name) ==
  player_variations_of(Strip(player_name), Split(Strip(player_name)))

\* PorterStemmer.stem and WordNetLemmatizer.lemmatize(pos='v') (nltk) on the
\* action names of the reference files
stem_of ==
  [w \in {"batting", "bowling", "celebrating", "running", "sprinting"} |->
     IF w = "batting" THEN "bat" ELSE IF w = "bowling" THEN "bowl"
     ELSE IF w = "celebrating" THEN "celebr" ELSE IF w = "running" THEN "run"
     ELSE "sprint"]
lemma_of ==
  [w \in DOMAIN stem_of |-> IF w = "celebrating" THEN "celebrate" ELSE stem_of[w]]

\* the entries of action_specific_variations for the names of the model
action_specific_variations(lower_name) ==
  IF lower_name = "bowling"
  THEN {"bowl", "bowls", "bowled", "throw", "throwing", "pitch", "pitching"}
  ELSE IF lower_name = "batting"
  THEN {"bat", "bats", "batted", "hit", "hitting", "strike", "striking"}
  ELSE IF lower_name = "celebrating"
  THEN {"celebrate", "celebrates", "celebrated", "cheer", "cheering", "rejoice"}
  ELSE IF lower_name = "sprinting"
  THEN {"sprint", "sprints", "sprinted", "run", "running", "dash", "dashing"}
  ELSE IF lower_name = "running"
  THEN {"run", "runs", "ran", "jog", "jogging", "sprint", "sprinting"}
  ELSE {}

EndsWith(s, t) == Len(s) >= Len(t) /\ SubSeq(s, Len(s) - Len(t) + 1, Len(s)) = t

continuous_form(lower_name) ==
  IF EndsWith(lower_name, "ing") THEN {}
  ELSE IF EndsWith(lower_name, "e")
  THEN {SubSeq(lower_name, 1, Len(lower_name) - 1) \o "ing"}
  ELSE {lower_name \o "ing"}

generate_action_variations(action_name) ==
  {Strip(action_name), Lower(Strip(action_name)),
   stem_of[Lower(Strip(action_name))], lemma_of[Lower(Strip(action_name))]}
    \cup continuous_form(Lower(Strip(action_name)))
    \cup action_specific_variations(Lower(Strip(action_name)))

event_specific_variations(lower_name) ==
  IF lower_name = "practice"
  THEN {"training", "net session", "nets", "drill", "workout", "preparation",
        "practice session", "training session", "warm-up", "warm up"}
  ELSE IF lower_name = "match"
  THEN {"game", "fixture", "contest", "tournament", "series", "competition",
        "play", "playing", "cricket match", "t20", "t20 match"}
  ELSE IF lower_name = "press meet"
  THEN {"press conference", "media briefing", "interview", "media interaction",
        "press", "media", "presser", "news conference", "media event"}
  ELSE {}

generate_event_variations(event_name) ==
  {Strip(event_name), Lower(Strip(event_name))}
    \cup event_specific_variations(Lower(Strip(event_name)))

mood_specific_variations(lower_name) ==
  IF lower_name = "casual"
  THEN {"relaxed", "informal", "laid-back", "easygoing", "chill", "comfortable",
        "normal", "everyday", "regular", "standard"}
  ELSE IF lower_name = "formal"
  THEN {"official", "serious", "professional", "business-like", "proper",
        "dignified", "ceremonial", "solemn", "composed", "reserved"}
  ELSE {}

generate_mood_variations(mood_name) ==
  {Strip(mood_name), Lower(Strip(mood_name))}
    \cup mood_specific_variations(Lower(Strip(mood_name)))

sublocation_specific_variations(lower_name) ==
  IF lower_name = "stadium"
  THEN {"ground", "field", "venue", "arena", "cricket ground", "cricket stadium",
        "sports ground", "pitch", "playing field", "cricket field"}
  ELSE IF lower_name = "field"
  THEN {"ground", "outfield", "playing area", "pitch", "cricket field",
        "playing field", "grass", "turf", "playing surface"}
  ELSE {}

generate_sublocation_variations(sublocation_name) ==
  {Strip(sublocation_name), Lower(Strip(sublocation_name))}
    \cup sublocation_specific_variations(Lower(Strip(sublocation_name)))

EntityTypes == {"players", "actions", "events", "moods", "sublocations"}

\* the row whose name the dict keeps under the key c: the last one
LastNamed(names, c) ==
  names[CHOOSE i \in 1..Len(names) :
          /\ Lower(names[i]) = c
          /\ \A j \in (i + 1)..Len(names) : Lower(names[j]) # c]

generate_variations(entity_type, name) ==
  IF entity_type = "players" THEN generate_player_name_variations(name)
  ELSE IF entity_type = "actions" THEN generate_action_variations(name)
  ELSE IF entity_type = "events" THEN generate_event_variations(name)
  ELSE IF entity_type = "moods" THEN generate_mood_variations(name)
  ELSE generate_sublocation_variations(name)

\* the dict of one entity type: name.lower() -> variations
variations_of_type(entity_type, names) ==
  [c \in {Lower(names[i]) : i \in 1..Len(names)} |->
     generate_variations(entity_type, LastNamed(names, c))]

\* one try block around the five reads and the five loops: any read that
\* fails leaves through the except branch, which returns five empty dicts
load_reference_data(env) ==
  IF env.unreadable # "none" THEN [t \in EntityTypes |-> << >>]
  ELSE [t \in EntityTypes |-> variations_of_type(t, env.reference[t])]

-----------------------------------------------------------------------------
(* Inputs of the model *)

NoEmb == [text |-> "<none>", near |-> {}, dist |-> FarDist]

\* the embedding worlds in which one of the given texts is near the rows of
\* one of the given sets; distances in tenths: 2 passes both thresholds, 7
\* only the 0.3 threshold
EmbWorlds(texts, nears) ==
  {NoEmb} \cup
  { [text |-> t, near |-> N, dist |-> d] :
      t \in texts, N \in nears \ {{}}, d \in {2, 7} }

\* the first n elements of a sequence, as a set
FirstN(seq, n) == {seq[i] : i \in 1..(IF Len(seq) < n THEN Len(seq) ELSE n)}

-----------------------------------------------------------------------------
(* State *)

VARIABLES
  fn,               \* the entry point that is running
  input_query,      \* its query text
  force_similarity, \* argument of query_images
  input_k,          \* limit argument
  input_threshold,  \* threshold argument, in tenths
  db,               \* ids of the rows of cricket_data (and documents)
  embedding,        \* the embedding world
  nlp_resources,    \* variants contributed by the external NLP resources
  pc,               \* position in the running function
  query_type,       \* result of classify_query_type
  similar_images,   \* the (document, score) pairs found
  used_similarity,  \* the flag query_images returns
  raised,           \* an exception left the function
  refined_queries,  \* result of refine_query
  ri,               \* index of the refinement loop
  calls,            \* ghost: the retriever calls made so far, in order
  environment,      \* state of the services the code depends on
  outcome           \* what a function other than a retriever returned

vars ==
  <<fn, input_query, force_similarity, input_k, input_threshold, db, embedding,
    nlp_resources, pc, query_type, similar_images, used_similarity, raised,
    refined_queries, ri, calls, environment, outcome>>

inputs ==
  <<fn, input_query, force_similarity, input_k, input_threshold, db, embedding,
    nlp_resources, environment>>

\* similarity_threshold of query_images and try_refined_queries (0.4)
Threshold == 4

\* limit of handle_practice_images_query
PracticeLimit == 5

\* ghost events of the call log
Lookups(text, trace) == [j \in 1..Len(trace) |-> [ev |-> trace[j], q |-> text, n |-> -1]]
SqlEvents(text, res) ==
  Lookups(text, res.trace)
    \o (IF res.raised THEN << >>
        ELSE <<[ev |-> "sql_return", q |-> text, n |-> Len(res.docs)]>>)
SimilarEvent(text, docs) == <<[ev |-> "get_similar_images", q |-> text, n |-> Len(docs)]>>

\* every service works: the embedding model loads and embeds, the documents
\* table is filled, the metadata store accepts connections and every
\* reference table can be read
\* the reference files (Players.csv, Action.csv, Event.csv, Mood.csv,
\* Sublocation.csv) that hold the rows of the reference tables
ReferenceFiles ==
  [players |-> [i \in 1..Len(players_table) |-> players_table[i].player_name],
   actions |-> [i \in 1..Len(action_table) |-> action_table[i].name],
   events |-> [i \in 1..Len(event_table) |-> event_table[i].name],
   moods |-> [i \in 1..Len(mood_table) |-> mood_table[i].name],
   sublocations |-> [i \in 1..Len(sublocation_table) |-> sublocation_table[i].name]]

Healthy ==
  [backend |-> "ok", documents |-> TRUE, reachable |-> TRUE, unreadable |-> "none",
   reference |-> ReferenceFiles]

NoOutcome == [kind |-> "none"]

Locals0 ==
  /\ pc = "start"
  /\ outcome = NoOutcome
  /\ query_type = "none"
  /\ similar_images = << >>
  /\ used_similarity = FALSE
  /\ raised = FALSE
  /\ refined_queries = << >>
  /\ ri = 0
  /\ calls = << >>

-----------------------------------------------------------------------------
(* query_images, step by step *)

Init ==
  /\ fn = "query_images"
  /\ input_query \in Queries
  /\ force_similarity \in BOOLEAN
  /\ input_k = 0
  /\ input_threshold = Threshold
  /\ db \in Stores
  /\ nlp_resources \in NlpChoices
  /\ environment = Healthy
  /\ embedding \in EmbWorlds(FirstN(refine_query(input_query, nlp_resources), MaxHotIdx + 1),
                             {db})
  /\ Locals0

\* Step 1: classify the query
Classify ==
  /\ pc = "start"
  /\ query_type' = classify_query_type(input_query)
  /\ pc' = IF force_similarity THEN "force" ELSE "special"
  /\ UNCHANGED <<inputs, outcome, similar_images, used_similarity, raised, refined_queries, ri, calls>>

\* force_similarity: straight to get_similar_images, then the response
ForceSimilarity ==
  /\ pc = "force"
  /\ similar_images' = get_similar_images(input_query, 0, Threshold, db, embedding)
  /\ calls' = calls \o SimilarEvent(input_query, similar_images')
  /\ used_similarity' = TRUE
  /\ pc' = "done"
  /\ UNCHANGED <<inputs, outcome, query_type, raised, refined_queries, ri>>

\* Step 2: practice images of players (handle_practice_images_query)
PracticeImages ==
  /\ pc = "special"
  /\ is_practice_images_query(input_query)
  /\ similar_images' = get_images_by_practice(PracticeLimit, db).docs
  /\ calls' = Append(calls, [ev |-> "practice_images", q |-> input_query,
                              n |-> Len(similar_images')])
  /\ used_similarity' = FALSE
  /\ pc' = "done"
  /\ UNCHANGED <<inputs, outcome, query_type, raised, refined_queries, ri>>

\* Step 3: handle_counting_query: a count and no images
Counting ==
  /\ pc = "special"
  /\ ~is_practice_images_query(input_query)
  /\ query_type = "counting"
  /\ similar_images' = << >>
  /\ used_similarity' = FALSE
  /\ calls' = Append(calls, [ev |-> "handle_counting_query", q |-> input_query, n |-> 0])
  /\ pc' = "done"
  /\ UNCHANGED <<inputs, outcome, query_type, raised, refined_queries, ri>>

\* Step 3: handle_tabular_query: a table and no images
Tabular ==
  /\ pc = "special"
  /\ ~is_practice_images_query(input_query)
  /\ query_type = "tabular"
  /\ similar_images' = << >>
  /\ used_similarity' = FALSE
  /\ calls' = Append(calls, [ev |-> "handle_tabular_query", q |-> input_query, n |-> 0])
  /\ pc' = "done"
  /\ UNCHANGED <<inputs, outcome, query_type, raised, refined_queries, ri>>

\* a query_images that goes on to the semantic search whatever the
\* structured retriever returned
SqlReturnedThenVector(text, res) ==
  /\ calls' = calls \o SqlEvents(text, res)
  /\ raised' = res.raised
  /\ similar_images' = res.docs
  /\ pc' = IF res.raised THEN "done" ELSE "vector"

\* the structured retriever returned res (or raised)
SqlReturned(text, res) ==
  /\ calls' = calls \o SqlEvents(text, res)
  /\ raised' = res.raised
  /\ similar_images' = res.docs
  /\ pc' = IF res.raised THEN "done"
           ELSE IF res.docs = << >> THEN "vector" ELSE "respond"

\* Step 4: SQL queries first
SqlFirst ==
  /\ pc = "special"
  /\ ~is_practice_images_query(input_query)
  /\ query_type \notin {"counting", "tabular"}
  /\ SqlReturned(input_query, get_images_by_sql_query(input_query, 0, db, embedding))
  /\ UNCHANGED <<inputs, outcome, query_type, used_similarity, refined_queries, ri>>

\* no SQL results: vector similarity search
VectorFallback ==
  /\ pc = "vector"
  /\ similar_images' = get_similar_images(input_query, 0, Threshold, db, embedding)
  /\ calls' = calls \o SimilarEvent(input_query, similar_images')
  /\ pc' = IF similar_images' = << >> THEN "refine" ELSE "respond"
  /\ used_similarity' = TRUE
  /\ UNCHANGED <<inputs, outcome, query_type, raised, refined_queries, ri>>

\* still nothing: try_refined_queries starts with refine_query
StartRefine ==
  /\ pc = "refine"
  /\ refined_queries' = refine_query(input_query, nlp_resources)
  /\ ri' = 1
  /\ pc' = "loop"
  /\ UNCHANGED <<inputs, outcome, query_type, similar_images, used_similarity, raised, calls>>

\* a loop body that keeps the results of a variant and goes on to the next
TryOneKeepGoing(refined_query, res, docs) ==
  IF refined_query = input_query
  THEN /\ ri' = ri + 1
       /\ UNCHANGED <<pc, similar_images, used_similarity, raised, calls>>
  ELSE /\ ri' = ri + 1
       /\ raised' = res.raised
       /\ similar_images' = IF res.docs # << >> THEN res.docs ELSE docs
       /\ used_similarity' = (res.docs = << >>)
       /\ calls' = calls \o SqlEvents(refined_query, res)
                         \o (IF res.raised \/ res.docs # << >> THEN << >>
                             ELSE SimilarEvent(refined_query, docs))
       /\ pc' = IF res.raised THEN "done" ELSE pc

\* a loop body without the test that skips the original query
TryOneNoSkip(refined_query, res, docs) ==
  IF res.raised
  THEN /\ raised' = TRUE
       /\ pc' = "done"
       /\ calls' = calls \o SqlEvents(refined_query, res)
       /\ UNCHANGED <<ri, similar_images, used_similarity>>
  ELSE IF res.docs # << >>
  THEN /\ similar_images' = res.docs
       /\ used_similarity' = FALSE
       /\ pc' = "respond"
       /\ calls' = calls \o SqlEvents(refined_query, res)
       /\ UNCHANGED <<ri, raised>>
  ELSE IF docs # << >>
  THEN /\ similar_images' = docs
       /\ used_similarity' = TRUE
       /\ pc' = "respond"
       /\ calls' = calls \o SqlEvents(refined_query, res)
                         \o SimilarEvent(refined_query, docs)
       /\ UNCHANGED <<ri, raised>>
  ELSE /\ ri' = ri + 1
       /\ calls' = calls \o SqlEvents(refined_query, res)
                         \o SimilarEvent(refined_query, docs)
       /\ UNCHANGED <<pc, similar_images, used_similarity, raised>>

\* the body of the loop for one refined query: res is what the structured
\* retriever returns for it and docs what the semantic retriever returns
TryOne(refined_query, res, docs) ==
  IF refined_query = input_query
  THEN /\ ri' = ri + 1
       /\ UNCHANGED <<pc, similar_images, used_similarity, raised, calls>>
  ELSE IF res.raised
  THEN /\ raised' = TRUE
       /\ pc' = "done"
       /\ calls' = calls \o SqlEvents(refined_query, res)
       /\ UNCHANGED <<ri, similar_images, used_similarity>>
  ELSE IF res.docs # << >>
  THEN /\ similar_images' = res.docs
       /\ used_similarity' = FALSE
       /\ pc' = "respond"
       /\ calls' = calls \o SqlEvents(refined_query, res)
       /\ UNCHANGED <<ri, raised>>
  ELSE IF docs # << >>
  THEN /\ similar_images' = docs
       /\ used_similarity' = TRUE
       /\ pc' = "respond"
       /\ calls' = calls \o SqlEvents(refined_query, res)
                         \o SimilarEvent(refined_query, docs)
       /\ UNCHANGED <<ri, raised>>
  ELSE /\ ri' = ri + 1
       /\ calls' = calls \o SqlEvents(refined_query, res)
                         \o SimilarEvent(refined_query, docs)
       /\ UNCHANGED <<pc, similar_images, used_similarity, raised>>

\* one iteration of the loop of try_refined_queries
TryRefined ==
  /\ pc = "loop"
  /\ ri <= Len(refined_queries)
  /\ TryOne(refined_queries[ri],
            get_images_by_sql_query(refined_queries[ri], 0, db, embedding),
            get_similar_images(refined_queries[ri], 0, Threshold, db, embedding))
  /\ UNCHANGED <<inputs, outcome, query_type, refined_queries>>

\* a query_images that clears the flag when no variant found anything
RefineExhaustedFlagCleared ==
  /\ pc = "loop"
  /\ ri > Len(refined_queries)
  /\ pc' = "respond"
  /\ used_similarity' = FALSE
  /\ UNCHANGED <<inputs, outcome, query_type, similar_images, raised, refined_queries,
                 ri, calls>>

\* the loop is exhausted: try_refined_queries returns None
RefineExhausted ==
  /\ pc = "loop"
  /\ ri > Len(refined_queries)
  /\ pc' = "respond"
  /\ UNCHANGED <<inputs, outcome, query_type, similar_images, used_similarity, raised,
                 refined_queries, ri, calls>>

\* Step 5: the response text; query_images returns
Respond ==
  /\ pc = "respond"
  /\ pc' = "done"
  /\ UNCHANGED <<inputs, outcome, query_type, similar_images, used_similarity, raised,
                 refined_queries, ri, calls>>

Next ==
  \/ Classify
  \/ ForceSimilarity
  \/ PracticeImages
  \/ Counting
  \/ Tabular
  \/ SqlFirst
  \/ VectorFallback
  \/ StartRefine
  \/ TryRefined
  \/ RefineExhausted
  \/ Respond

Spec == Init /\ [][Next]_vars

\* query_images as a request handler: the process waits for a call, the call
\* arrives with its arguments, and the handler runs to its end (a step that
\* can be taken is taken)
InitLive ==
  /\ fn = "query_images"
  /\ input_query = ""
  /\ force_similarity = FALSE
  /\ input_k = 0
  /\ input_threshold = Threshold
  /\ db = {}
  /\ nlp_resources = NoNlp
  /\ environment = Healthy
  /\ embedding = NoEmb
  /\ pc = "idle"
  /\ outcome = NoOutcome
  /\ query_type = "none"
  /\ similar_images = << >>
  /\ used_similarity = FALSE
  /\ raised = FALSE
  /\ refined_queries = << >>
  /\ ri = 0
  /\ calls = << >>

\* query_images(query, force_similarity) is called
CallArrives ==
  /\ pc = "idle"
  /\ input_query' \in Queries
  /\ force_similarity' \in BOOLEAN
  /\ db' \in Stores
  /\ nlp_resources' \in NlpChoices
  /\ embedding' \in EmbWorlds(FirstN(refine_query(input_query', nlp_resources'),
                                      MaxHotIdx + 1), {db'})
  /\ pc' = "start"
  /\ UNCHANGED <<fn, input_k, input_threshold, environment, outcome, query_type,
                 similar_images, used_similarity, raised, refined_queries, ri, calls>>

NextLive ==
  \/ CallArrives
  \/ Next

\* TryRefined can be taken exactly in these states: every branch of the loop
\* body changes ri or pc
LoopBodyEnabled == pc = "loop" /\ ri <= Len(refined_queries)

\* weak fairness of TryRefined, with its enabling condition written out
FairTryRefined == []<>(~LoopBodyEnabled) \/ []<><<TryRefined>>_vars

SpecLive ==
  /\ InitLive /\ [][NextLive]_vars
  /\ WF_vars(RefineExhausted) /\ WF_vars(Respond)
  /\ FairTryRefined

-----------------------------------------------------------------------------
(* The retrievers and refine_query called on their own: one call of the    *)
(* function fn on the inputs, after which pc = "returned" and the result is *)
(* in similar_images / raised / refined_queries                            *)

\* queries of refine_query alone
RefineQueries == Queries \cup {"show me images of a batsmen bating"}

InitFn ==
  /\ fn \in {"get_images_with_multiple_players", "get_images_by_sql_query",
            "get_similar_images", "refine_query", "get_images_by_player_name"}
  /\ input_query \in (IF fn = "refine_query" THEN RefineQueries
                       ELSE Queries \cup RetrieverQueries)
  /\ force_similarity = FALSE
  /\ input_k \in (IF fn = "refine_query" THEN {0} ELSE 0..MaxK)
  /\ input_threshold \in (IF fn = "get_similar_images" THEN {0, Threshold} ELSE {Threshold})
  /\ db \in (IF fn = "refine_query" THEN {{}} ELSE Stores)
  /\ nlp_resources \in (IF fn = "refine_query" THEN NlpChoices ELSE {NoNlp})
  /\ environment = Healthy
  /\ embedding \in (IF fn \in {"get_images_by_sql_query", "get_similar_images"}
                    THEN EmbWorlds({input_query}, SUBSET db) ELSE {NoEmb})
  /\ Locals0

\* a retriever returned res (or raised)
Returned(res) ==
  /\ similar_images' = res.docs
  /\ raised' = res.raised
  /\ pc' = "returned"

Call_get_images_with_multiple_players ==
  /\ fn = "get_images_with_multiple_players"
  /\ pc = "start"
  /\ Returned(get_images_with_multiple_players(input_query, input_k, db))
  /\ UNCHANGED <<inputs, outcome, query_type, used_similarity, refined_queries, ri, calls>>

\* the dispatch steps taken are logged in calls
ReturnedSql(res) ==
  /\ Returned(res)
  /\ calls' = SqlEvents(input_query, res)

Call_get_images_by_sql_query ==
  /\ fn = "get_images_by_sql_query"
  /\ pc = "start"
  /\ ReturnedSql(get_images_by_sql_query(input_query, input_k, db, embedding))
  /\ UNCHANGED <<inputs, outcome, query_type, used_similarity, refined_queries, ri>>

Call_get_similar_images ==
  /\ fn = "get_similar_images"
  /\ pc = "start"
  /\ similar_images' = get_similar_images(input_query, input_k, input_threshold,
                                          db, embedding)
  /\ pc' = "returned"
  /\ UNCHANGED <<inputs, outcome, query_type, used_similarity, raised, refined_queries, ri, calls>>

Call_refine_query ==
  /\ fn = "refine_query"
  /\ pc = "start"
  /\ refined_queries' = refine_query(input_query, nlp_resources)
  /\ pc' = "returned"
  /\ UNCHANGED <<inputs, outcome, query_type, similar_images, used_similarity, raised, ri, calls>>

\* the single-player path called on its own; outcome keeps the branch taken
\* at the multiple-player test and the player id the tiers resolved
Call_get_images_by_player_name ==
  /\ fn = "get_images_by_player_name"
  /\ pc = "start"
  /\ Returned(get_images_by_player_name(input_query, input_k, db))
  /\ outcome' = [kind |-> "player",
                 delegated |-> several_players_named(Lower(input_query)),
                 player_id |-> resolve_player_id(Lower(input_query))]
  /\ UNCHANGED <<inputs, query_type, used_similarity, refined_queries, ri, calls>>

NextFn ==
  \/ Call_get_images_by_player_name
  \/ Call_get_images_with_multiple_players
  \/ Call_get_images_by_sql_query
  \/ Call_get_similar_images
  \/ Call_refine_query

SpecFn == InitFn /\ [][NextFn]_vars

-----------------------------------------------------------------------------
(* The functions under failing services: the environment says whether the  *)
(* embedding backend works, whether the documents table is filled and      *)
(* whether the metadata store accepts connections                           *)

\* "load_fails": the configured model cannot be loaded; "embed_fails":
\* embed_documents and embed_query raise
Backends == {"ok", "load_fails", "embed_fails"}

Raised == [docs |-> << >>, raised |-> TRUE]

\* database_exists: the documents table has rows (the rows of the store,
\* once they are embedded); False when the connection fails
database_exists(env, store) == env.reachable /\ env.documents /\ store # {}

\* reference_data_exists: the players table has rows; False when the
\* connection fails
reference_data_exists(env) == env.reachable /\ players_table # << >>

\* get_embeddings_model falls back to other embeddings when the configured
\* model cannot be loaded, so only the embed calls can raise
embedding_raises(env) == env.backend = "embed_fails"

\* get_or_create_vector_store raises: RuntimeError without reference data,
\* or embed_documents raises on the texts of the rows while the documents
\* table is being filled
vector_store_raises(env, store) ==
  /\ ~database_exists(env, store)
  /\ (~reference_data_exists(env) \/ (embedding_raises(env) /\ store # {}))

\* get_similar_images in an environment: get_or_create_vector_store is
\* called outside the try block, embed_query and similarity_search inside it
get_similar_images_in(env, query, k, similarity_threshold, store, emb) ==
  IF vector_store_raises(env, store) THEN Raised
  ELSE IF embedding_raises(env) THEN NoDocs
  ELSE Found(get_similar_images(query, k, similarity_threshold, store, emb))

\* the first call of query_images that opens a connection to the metadata
\* store without a try block around it, in the order of the code
first_connection(query, force) ==
  IF force THEN "get_or_create_vector_store"
  ELSE IF is_practice_images_query(query) THEN "get_images_by_practice"
  ELSE IF classify_query_type(query) = "counting" THEN "handle_counting_query"
  ELSE IF classify_query_type(query) = "tabular" THEN "handle_tabular_query"
  ELSE IF ContainsAny(Lower(query), group_photo_terms)
  THEN "get_images_with_multiple_players"
  ELSE "get_player_names_in_query"

\* query_images when get_db_connection raises: database_exists and
\* reference_data_exists catch the exception and answer False, so that
\* get_or_create_vector_store raises RuntimeError; every other first access
\* lets the connection error through, and query_images has no try block
query_images_unreachable(query, force) ==
  [kind |-> "exception", stage |-> first_connection(query, force)]

Environments ==
  [backend : Backends, documents : BOOLEAN, reachable : BOOLEAN,
   unreadable : {"none"}, reference : {ReferenceFiles}]

\* other contents of the reference files
References ==
  [players : {ReferenceFiles.players, <<"Faf du Plessis", "JP King">>},
   actions : {ReferenceFiles.actions, <<"Running", "Sprinting">>},
   events : {ReferenceFiles.events},
   moods : {ReferenceFiles.moods, <<"Casual", "Formal">>},
   sublocations : {ReferenceFiles.sublocations, <<"Stadium", "Field">>}]

\* the environments of load_reference_data: at most one file is unreadable
CatalogEnvironments ==
  [backend : {"ok"}, documents : {TRUE}, reachable : {TRUE},
   unreadable : EntityTypes \cup {"none"}, reference : References]

\* queries for the classifier: "how many" next to image, tabular and
\* descriptive terms, and queries without any pattern
ClassifyQueries ==
  { "show me how many images",
    "how many rows in the table",
    "what is shown, and how many",
    "where and how many photos",
    "How Many pictures",
    "howmany images",
    "cricket",
    "where is the team" }

\* one query per tabular keyword: the keyword and a noun phrase
TabularKeywordQueries ==
  {tabular_patterns[i] \o " the team photos" : i \in 1..Len(tabular_patterns)}

QueriesOf(f) ==
  IF f = "classify_query_type"
  THEN Queries \cup ClassifyQueries \cup TabularKeywordQueries
  ELSE IF f = "handle_counting_query" THEN CountQueries
  ELSE IF f = "load_reference_data" THEN {""}
  ELSE Queries

InitEnv ==
  /\ fn \in {"get_similar_images", "query_images", "classify_query_type",
            "handle_counting_query", "load_reference_data"}
  /\ input_query \in QueriesOf(fn)
  /\ force_similarity \in (IF fn = "query_images" THEN BOOLEAN ELSE {FALSE})
  /\ input_k \in (IF fn \in {"classify_query_type", "load_reference_data"} THEN {0}
                  ELSE 0..MaxK)
  /\ input_threshold = Threshold
  /\ db \in (IF fn \in {"classify_query_type", "load_reference_data"} THEN {{}}
             ELSE Stores)
  /\ nlp_resources = NoNlp
  /\ environment \in
       (IF fn = "query_images" THEN {e \in Environments : ~e.reachable}
        ELSE IF fn = "get_similar_images" THEN Environments
        ELSE IF fn = "load_reference_data" THEN CatalogEnvironments
        ELSE {Healthy})
  /\ embedding \in EmbWorlds({input_query}, {db})
  /\ Locals0

Env_get_similar_images ==
  /\ fn = "get_similar_images"
  /\ pc = "start"
  /\ Returned(get_similar_images_in(environment, input_query, input_k,
                                    input_threshold, db, embedding))
  /\ UNCHANGED <<inputs, outcome, query_type, used_similarity, refined_queries, ri, calls>>

\* query_images with a metadata store that refuses connections
Env_query_images ==
  /\ fn = "query_images"
  /\ pc = "start"
  /\ ~environment.reachable
  /\ query_type' = classify_query_type(input_query)
  /\ outcome' = query_images_unreachable(input_query, force_similarity)
  /\ raised' = TRUE
  /\ pc' = "returned"
  /\ UNCHANGED <<inputs, similar_images, used_similarity, refined_queries, ri, calls>>

Env_classify_query_type ==
  /\ fn = "classify_query_type"
  /\ pc = "start"
  /\ outcome' = [kind |-> "category", category |-> classify_query_type(input_query)]
  /\ pc' = "returned"
  /\ UNCHANGED <<inputs, query_type, similar_images, used_similarity, raised,
                 refined_queries, ri, calls>>

Env_handle_counting_query ==
  /\ fn = "handle_counting_query"
  /\ pc = "start"
  /\ outcome' = handle_counting_query(input_query, db)
  /\ pc' = "returned"
  /\ UNCHANGED <<inputs, query_type, similar_images, used_similarity, raised,
                 refined_queries, ri, calls>>

Env_load_reference_data ==
  /\ fn = "load_reference_data"
  /\ pc = "start"
  /\ outcome' = [kind |-> "catalog", entity_variations |-> load_reference_data(environment)]
  /\ pc' = "returned"
  /\ UNCHANGED <<inputs, query_type, similar_images, used_similarity, raised,
                 refined_queries, ri, calls>>

NextEnv ==
  \/ Env_get_similar_images
  \/ Env_load_reference_data
  \/ Env_handle_counting_query
  \/ Env_classify_query_type
  \/ Env_query_images

SpecEnv == InitEnv /\ [][NextEnv]_vars

-----------------------------------------------------------------------------
(* Properties of the retrievers (SpecFn) and of query_images (Spec) *)

\* the row behind a returned pair has a known face count of at least 2
AtLeastTwoFaces(doc) ==
  /\ RowById(doc.id).no_of_faces # NullFaces
  /\ RowById(doc.id).no_of_faces >= 2

\* C1: every (document, score) pair get_images_by_sql_query returns for a
\* query whose text contains "together" has no_of_faces >= 2, whichever
\* dispatch step produced it.  The single-player step returns rows without
\* any face-count condition, so this does not hold of the code.
C1_TogetherInvariant ==
  (fn = "get_images_by_sql_query" /\ pc = "returned"
     /\ Contains(input_query, "together"))
    => \A j \in 1..Len(similar_images) : AtLeastTwoFaces(similar_images[j])

\* C2: every row get_images_with_multiple_players returns has
\* no_of_faces >= 2 (never NULL, 0 or 1), also when the together-term
\* OR-extension broadens the text clause.
C2_MultiplePlayersFaces ==
  (fn = "get_images_with_multiple_players" /\ pc = "returned")
    => \A j \in 1..Len(similar_images) : AtLeastTwoFaces(similar_images[j])

\* a together term of the query is in the row's texts, or the player clause
\* matches them
TextClause(query_lower, names, r) ==
  player_clause(query_lower, names, r) \/ together_term_clause(query_lower, r)

\* C2 happens: a query with a together term returned rows while the store
\* also holds a row that matches the text clause with fewer than two (or
\* unknown) faces
C2_Witness ==
  /\ fn = "get_images_with_multiple_players" /\ pc = "returned"
  /\ similar_images # << >>
  /\ ContainsAny(Lower(input_query), together_terms)
  /\ \E i \in db :
       /\ few_faces(RowById(i).no_of_faces)
       /\ TextClause(Lower(input_query),
                     NamesOfIds(mentioned_player_ids(input_query)), RowById(i))

\* the row mentions the player: the full name, or both the first and the
\* last name, in its caption or in its description text (the page content of
\* its document)
InRowText(r, t) ==
  Contains(Lower(r.caption), t) \/ Contains(Lower(page_content(r)), t)

FirstWord(name) == Split(name)[1]
LastWord(name) == Split(name)[Len(Split(name))]

Mentions(r, name) ==
  \/ InRowText(r, name)
  \/ InRowText(r, FirstWord(name)) /\ InRowText(r, LastWord(name))

MentionsAny(r, names) == \E i \in 1..Len(names) : Mentions(r, names[i])

\* C3: for a query in which at least one player is identified, every row
\* that survives the verification pass of get_images_with_multiple_players
\* contains, in its caption or its description text, the full name of an
\* identified player, or both the first and the last name of that player.
C3_CoMention ==
  (fn = "get_images_with_multiple_players" /\ pc = "returned"
     /\ mentioned_player_ids(input_query) # << >>)
    => \A j \in 1..Len(similar_images) :
         MentionsAny(RowById(similar_images[j].id),
                     NamesOfIds(mentioned_player_ids(input_query)))

\* C3 happens: players are identified, rows survive, and a row the SELECT
\* took is dropped because it mentions none of the players
C3_Witness ==
  /\ fn = "get_images_with_multiple_players" /\ pc = "returned"
  /\ mentioned_player_ids(input_query) # << >>
  /\ similar_images # << >>
  /\ \E i \in db :
       /\ multi_where_clause(Lower(input_query),
                             NamesOfIds(mentioned_player_ids(input_query)),
                             RowById(i))
       /\ ~MentionsAny(RowById(i), NamesOfIds(mentioned_player_ids(input_query)))
       /\ \A j \in 1..Len(similar_images) : similar_images[j].id # i

\* C4: a query that classify_query_type classifies as counting or tabular,
\* asked without force_similarity, is answered through handle_counting_query
\* or handle_tabular_query, with an empty image list and the flag False.
\* The practice-images check comes first in query_images and returns image
\* rows, so this does not hold of the code.
C4_AggregatePath ==
  (fn = "query_images" /\ pc = "done" /\ ~force_similarity
     /\ query_type \in {"counting", "tabular"})
    => /\ similar_images = << >>
       /\ used_similarity = FALSE
       /\ Len(calls) = 1
       /\ calls[1].ev =
            (IF query_type = "counting" THEN "handle_counting_query"
             ELSE "handle_tabular_query")

\* C5: for every limit k (k = 0 and k > 0) and every threshold t, every
\* (doc, dist) pair get_similar_images returns satisfies 1 - dist >= t
\* (tenths).  With k > 0 the vector query has no threshold condition, so
\* this does not hold of the code.
C5_ThresholdFiltering ==
  (fn = "get_similar_images" /\ pc = "returned")
    => \A j \in 1..Len(similar_images) :
         10 - similar_images[j].score >= input_threshold

\* C6: with force_similarity = True no structured lookup is made: the
\* returned rows come only from the embedding search, and the flag is True.
\* similarity_search tries its own SQL lookups first, so this does not hold
\* of the code.
C6_ForceBypass ==
  (fn = "query_images" /\ pc = "done" /\ force_similarity)
    => /\ used_similarity
       /\ \A j \in 1..Len(similar_images) : similar_images[j].via = "vector"

\* the structured dispatch for the string returned empty before entry j of
\* the call log
DispatchReturnedEmpty(text, j) ==
  \E i \in 1..(j - 1) : calls[i] = [ev |-> "sql_return", q |-> text, n |-> 0]

\* the structured dispatch for the string has not returned before entry j
DispatchRunning(text, j) ==
  \A i \in 1..(j - 1) : ~(calls[i].ev = "sql_return" /\ calls[i].q = text)

\* the refinement loop has started
RefinementStarted == ri > 0

\* both stages returned empty for the original query
BothStagesEmpty ==
  /\ \E i \in 1..Len(calls) :
       calls[i] = [ev |-> "sql_return", q |-> input_query, n |-> 0]
  /\ \E i \in 1..Len(calls) :
       calls[i] = [ev |-> "get_similar_images", q |-> input_query, n |-> 0]

ImageOrDescriptive ==
  fn = "query_images" /\ ~force_similarity
    /\ query_type \in {"image", "descriptive"}

VariantCalls ==
  SelectIdx(calls, {j \in 1..Len(calls) : calls[j].q # input_query}, 1)

\* the variants: the refined queries without the original, in list order
VariantsOf(queries) ==
  SelectIdx(queries, {j \in 1..Len(queries) : queries[j] # input_query}, 1)

\* the strings of the entries, first occurrences in order
StringsOf(log) == Dedup([j \in 1..Len(log) |-> log[j].q])

IsPrefix(s, t) == Len(s) <= Len(t) /\ \A i \in 1..Len(s) : s[i] = t[i]

\* the entries of one string are consecutive
Consecutive(log) ==
  \A i \in 1..Len(log) : \A j \in i..Len(log) : \A m \in j..Len(log) :
     log[i].q = log[m].q => log[j].q = log[i].q

\* the variants are attempted in list order, none left out
InListOrder(log, variants) ==
  /\ Consecutive(log)
  /\ IsPrefix(StringsOf(log), variants)
  /\ pc = "loop" =>
       Len(StringsOf(log)) = Len(VariantsOf(SubSeq(refined_queries, 1, ri - 1)))

\* the structured retriever first; the semantic retriever exactly when the
\* structured retriever returned empty, right after it
StructuredThenSemantic(log) ==
  \A j \in 1..Len(log) :
     /\ log[j].ev = "get_similar_images"
          => /\ j > 1
             /\ log[j - 1] = [ev |-> "sql_return", q |-> log[j].q, n |-> 0]
     /\ (log[j].ev = "sql_return" /\ log[j].n = 0)
          => /\ j < Len(log)
             /\ log[j + 1].ev = "get_similar_images"
             /\ log[j + 1].q = log[j].q
     /\ (log[j].ev \notin {"sql_return", "get_similar_images"} /\ ~raised)
          => \E m \in (j + 1)..Len(log) :
               log[m].ev = "sql_return" /\ log[m].q = log[j].q

\* a non-empty result ends the loop: nothing is attempted after it, and it
\* is what the loop returns
FirstSuccessStops(log) ==
  \A j \in 1..Len(log) :
     (log[j].ev \in {"sql_return", "get_similar_images"} /\ log[j].n > 0)
       => /\ j = Len(log)
          /\ pc \in {"respond", "done"}
          /\ Len(similar_images) = log[j].n
          /\ used_similarity = (log[j].ev = "get_similar_images")

\* C8: try_refined_queries goes through the variants of refine_query(q) in
\* list order, skipping the original; for each variant it calls the
\* structured retriever and, only if that returned empty, the semantic
\* retriever; it returns at the first variant for which either is non-empty,
\* and no variant after the successful one is attempted.
C8_RetryLoop ==
  (fn = "query_images" /\ RefinementStarted)
    => /\ InListOrder(VariantCalls, VariantsOf(refined_queries))
       /\ StructuredThenSemantic(VariantCalls)
       /\ FirstSuccessStops(VariantCalls)

\* C8 happens: a variant succeeded after an earlier variant failed in both
\* retrievers, and a later variant is left unattempted
C8_Witness ==
  /\ fn = "query_images" /\ pc = "respond"
  /\ VariantCalls # << >>
  /\ VariantCalls[Len(VariantCalls)].n > 0
  /\ Len(StringsOf(VariantCalls)) >= 2
  /\ Len(StringsOf(VariantCalls)) < Len(VariantsOf(refined_queries))

\* C9 as stated: for every query string q, the empty string and
\* whitespace-only strings included, the first element of refine_query(q) is
\* exactly q.
C9_FirstIsQuery ==
  (fn = "refine_query" /\ pc = "returned")
    => Len(refined_queries) >= 1 /\ refined_queries[1] = input_query

\* C9, amended: for every query string q with a character that is not
\* white space, the first element of refine_query(q) is exactly q (an empty
\* or whitespace-only q is removed from the list with the empty queries).
C9_FirstIsQueryNonBlank ==
  (fn = "refine_query" /\ pc = "returned" /\ StripNonEmpty(input_query))
    => Len(refined_queries) >= 1 /\ refined_queries[1] = input_query

\* C9 happens: a query whose spelling is corrected, with the corrected
\* variant behind it in the list
C9_Witness ==
  /\ fn = "refine_query" /\ pc = "returned"
  /\ StripNonEmpty(input_query)
  /\ correct_spelling(input_query) # input_query
  /\ Len(refined_queries) >= 2
  /\ refined_queries[2] = correct_spelling(input_query)

\* both retrievers return empty for the string, without an exception
BothEmpty(text, res, docs) == ~res.raised /\ res.docs = << >> /\ docs = << >>

MissFor(text) ==
  BothEmpty(text, get_images_by_sql_query(text, 0, db, embedding),
            get_similar_images(text, 0, Threshold, db, embedding))

\* the structured retriever, the semantic retriever and every refinement
\* variant return empty
TotalMiss ==
  /\ MissFor(input_query)
  /\ \A v \in Range(refine_query(input_query, nlp_resources)) : MissFor(v)

\* query_images returns an empty list with the flag True, without exception
EmptyAndSemantic == similar_images = << >> /\ used_similarity /\ ~raised

\* C10 as stated: when the structured retriever, the semantic retriever and
\* every refinement variant return empty for a query that is neither
\* counting nor tabular, query_images returns an empty list with the flag
\* True and raises no exception.
C10_TotalMiss ==
  (fn = "query_images" /\ pc = "done"
     /\ query_type \notin {"counting", "tabular"})
    => (EmptyAndSemantic \/ ~TotalMiss)

\* C10, amended: the same for a query that is not a practice-images query
\* either (a practice-images query is answered by
\* handle_practice_images_query alone, with the flag False).
C10_TotalMissRetrieval ==
  (fn = "query_images" /\ pc = "done"
     /\ query_type \notin {"counting", "tabular"}
     /\ ~is_practice_images_query(input_query))
    => (EmptyAndSemantic \/ ~TotalMiss)

\* C10 happens: on a store with rows, both stages and every variant of the
\* refinement loop came back empty and query_images returned
C10_Witness ==
  /\ fn = "query_images" /\ pc = "done" /\ ~force_similarity
  /\ db # {}
  /\ ri > Len(refined_queries)
  /\ VariantCalls # << >>
  /\ EmptyAndSemantic

\* C11: when the embedding backend fails (the model cannot be loaded, or
\* embedding a text raises), get_similar_images returns an empty list and
\* does not raise, also when the documents table is still empty.  With an
\* empty documents table embed_documents is called outside the try block,
\* and a model that cannot be loaded is replaced by fallback embeddings whose
\* results are returned, so this does not hold of the code.
C11_SemanticFailsSoft ==
  (fn = "get_similar_images" /\ pc = "returned"
     /\ environment.reachable /\ environment.backend # "ok")
    => ~raised /\ similar_images = << >>

\* C12: when opening a connection to the metadata store fails, query_images
\* propagates no exception: the stages that needed the store count as empty
\* and the caller receives its triple.  No caller of get_db_connection on
\* the paths of query_images catches the error, so this does not hold of the
\* code.
C12_StoreUnreachableRecovered ==
  (fn = "query_images" /\ pc = "returned" /\ ~environment.reachable)
    => ~raised /\ outcome.kind # "exception"

ProducingLookup ==
  IF Len(calls) < 2 THEN "none" ELSE calls[Len(calls) - 1].ev

DispatchReturned ==
  /\ fn = "get_images_by_sql_query"
  /\ pc = "returned"
  /\ ~raised

Classified ==
  /\ fn = "classify_query_type"
  /\ pc = "returned"
  /\ outcome.kind = "category"

\* C14: a query containing "how many" is classified counting, also when it
\* contains image terms, tabular terms or descriptive markers.
C14_CountingPrecedence ==
  (Classified /\ Contains(Lower(input_query), "how many"))
    => outcome.category = "counting"

C14_Witness ==
  /\ Classified
  /\ Contains(input_query, "how many")
  /\ Contains(input_query, "table")
  /\ outcome.category = "counting"

\* the query matches no pattern of the four families
MatchesNoPattern(query) ==
  /\ ~ContainsAny(Lower(query), count_patterns)
  /\ ~ContainsAny(Lower(query), tabular_patterns)
  /\ ~ContainsAny(Lower(query), descriptive_patterns)
  /\ ~ContainsAny(Lower(query), image_patterns)

\* C15: a query matching none of the counting, tabular, descriptive-marker
\* and image patterns is classified image.  is_descriptive_query answers
\* True for every query that is neither counting nor image, so this does not
\* hold of the code.
C15_DefaultImage ==
  (Classified /\ MatchesNoPattern(input_query)) => outcome.category = "image"

\* the query names an event type and no player, action, mood or location
EventOnly(query) ==
  /\ event_type_of(Lower(query)) # "none"
  /\ ~is_player_query(Lower(query))
  /\ ~ContainsAny(Lower(query), action_terms)
  /\ ~ContainsAny(Lower(query), mood_terms)
  /\ ~ContainsAny(Lower(query), location_terms)

\* C16: for a counting query that names an event type and no player,
\* action, mood or location, handle_counting_query reports the count of that
\* event type, not the total.  The default at the end of the function
\* assigns the total over the event count, so this does not hold of the code.
C16_EventCount ==
  (fn = "handle_counting_query" /\ pc = "returned" /\ EventOnly(input_query))
    => outcome.count = get_count_from_db(event_type_of(Lower(input_query)), db)

CatalogLoaded ==
  /\ fn = "load_reference_data"
  /\ pc = "returned"
  /\ outcome.kind = "catalog"

\* C17: in the catalog built by load_reference_data, within each entity type
\* no variant string occurs in the variant lists of two different canonical
\* entries.  The curated lists repeat strings across entries ("run" under
\* running and sprinting, "ground" under stadium and field), so this does not
\* hold of the code.
C17_VariantUnique ==
  CatalogLoaded =>
    \A t \in EntityTypes :
      \A c1, c2 \in DOMAIN outcome.entity_variations[t] :
        c1 # c2 =>
          outcome.entity_variations[t][c1] \cap outcome.entity_variations[t][c2] = {}

\* C18: if the reference file of exactly one entity type cannot be read,
\* load_reference_data returns an empty variant map for that type and
\* populated maps for the other four.  The five reads share one try block,
\* so this does not hold of the code.
C18_FailsSoftPerType ==
  (CatalogLoaded /\ environment.unreadable # "none") =>
    \A t \in EntityTypes :
      (DOMAIN outcome.entity_variations[t] = {}) <=> (t = environment.unreadable)

OneNamedPlayer ==
  /\ fn = "get_images_with_multiple_players"
  /\ pc = "returned"
  /\ ~is_group_photo_query(Lower(input_query))
  /\ Len(mentioned_player_ids(input_query)) = 1

\* C20: for a query that is not a group-photo phrase and names exactly one
\* player, get_images_with_multiple_players does not return at once: it
\* selects with that player's caption / description condition and
\* no_of_faces >= 2, and returns the rows that match.  The early return
\* tests for fewer than two players, so this does not hold of the code.
C20_OneNamedPlayerSelects ==
  (OneNamedPlayer /\ input_k = 0) =>
    \A i \in db :
      (/\ TextLike(RowById(i), NamesOfIds(mentioned_player_ids(input_query))[1])
       /\ together_clause(RowById(i)))
        => \E j \in 1..Len(similar_images) : similar_images[j].id = i

\* the lookups of the dispatch, in the order they were made
LookupsMade == [i \in 1..Len(calls) |-> calls[i].ev]

\* C21: a query with multi-person intent (a connector term and a player) is
\* sent by get_images_by_sql_query to the multi-person path before the
\* single-player path is tried.  The dispatch tests " and ", "&", "together",
\* "same frame", "single frame" only, so this does not hold for "with" (nor
\* for "and" inside a word).
C21_IntentDispatchAgree ==
  (fn = "get_images_by_sql_query" /\ pc = "returned"
     /\ is_multiple_players_query(input_query))
    => \A i \in 1..Len(calls) :
         calls[i].ev = "single"
           => \E j \in 1..(i - 1) : calls[j].ev \in {"multi", "group"}

\* a row with two or more faces whose caption or description contains
\* "together" and that names none of the players
TogetherRowWithoutPlayers(r, names) ==
  /\ together_clause(r)
  /\ r.caption # NULL
  /\ TextLike(r, "together")
  /\ ~MentionsAny(r, names)

\* C22: for a query that names two or more players and contains "together",
\* a row with no_of_faces >= 2 whose caption or description contains the
\* together term and names none of the queried players is returned by
\* get_images_with_multiple_players.  The SELECT takes such a row; the
\* verification pass drops every row in which no queried player is present,
\* so this does not hold of the code.
C22_TogetherBroadening ==
  (fn = "get_images_with_multiple_players" /\ pc = "returned" /\ ~raised
     /\ input_k = 0
     /\ Len(mentioned_player_ids(input_query)) >= 2
     /\ Contains(Lower(input_query), "together"))
    => \A i \in db :
         TogetherRowWithoutPlayers(RowById(i),
                                   NamesOfIds(mentioned_player_ids(input_query)))
           => \E j \in 1..Len(similar_images) : similar_images[j].id = i

\* C23: whenever query_images returns a non-empty list, the flag is False
\* only if every returned row came from a structured lookup and True only if
\* the rows came from the embedding search (the flag of try_refined_queries
\* included).  The flag names the stage that was called, and each stage can
\* return rows of the other kind, so this does not hold of the code.
C23_FlagFaithful ==
  (fn = "query_images" /\ pc = "done" /\ ~raised /\ similar_images # << >>)
    => \A j \in 1..Len(similar_images) :
         similar_images[j].via = (IF used_similarity THEN "vector" ELSE "sql")

\* (the same for the calls that were not forced to the semantic retriever)
C23_FlagFaithfulUnforced == force_similarity \/ C23_FlagFaithful

\* the steps of the dispatch in the order of the claim
StepOrder ==
  <<"group", "multi", "single", "press", "practice", "action", "mood", "location",
    "activity", "keyword">>

\* the same with the similarity search of the player step
StepOrderWithSimilar ==
  <<"group", "multi", "similar", "single", "press", "practice", "action", "mood",
    "location", "activity", "keyword">>

RankIn(order, ev) == CHOOSE i \in 1..Len(order) : order[i] = ev

\* the lookups logged by one dispatch (the return event left out)
DispatchLookups == SubSeq(LookupsMade, 1, Len(calls) - 1)

\* the lookups are steps of the order and were made in that order
MadeInOrder(order) ==
  /\ \A i \in 1..Len(DispatchLookups) : DispatchLookups[i] \in Range(order)
  /\ \A i \in 1..(Len(DispatchLookups) - 1) :
       RankIn(order, DispatchLookups[i]) <= RankIn(order, DispatchLookups[i + 1])

\* the lists a lookup of this name can have returned for the arguments of
\* the call (one list per term of the query for the term loops)
TermResults(terms, table) ==
  {table[terms[i]].docs : i \in {j \in 1..Len(terms) : Contains(Lower(input_query), terms[j])}}

StepResults(ev) ==
  IF ev \in {"group", "multi"}
  THEN {get_images_with_multiple_players(input_query, input_k, db).docs}
  ELSE IF ev = "similar" THEN {filtered_images(input_query, db, embedding)}
  ELSE IF ev = "single" THEN {get_images_by_player_name(input_query, input_k, db).docs}
  ELSE IF ev = "press" THEN {get_images_by_press_meet(input_k, db).docs}
  ELSE IF ev = "practice" THEN {get_images_by_practice(input_k, db).docs}
  ELSE IF ev = "action"
  THEN TermResults(action_terms,
                   [t \in Range(action_terms) |-> get_images_by_action(t, input_k, db)])
  ELSE IF ev = "mood"
  THEN TermResults(mood_terms,
                   [t \in Range(mood_terms) |-> get_images_by_mood(t, input_k, db)])
  ELSE IF ev = "location"
  THEN TermResults(location_terms,
                   [t \in Range(location_terms) |-> get_images_by_location(t, input_k, db)])
  ELSE IF ev = "activity" THEN {get_images_by_activity(input_query, input_k, db).docs}
  ELSE {get_images_by_keywords(extract_keywords(Lower(input_query)), input_k, db).docs}

\* every lookup but the last returned empty, and a non-empty result is what
\* the last lookup returned
FirstNonEmptyReturned ==
  /\ \A i \in 1..(Len(DispatchLookups) - 1) : << >> \in StepResults(DispatchLookups[i])
  /\ similar_images # << >>
       => /\ DispatchLookups # << >>
          /\ similar_images \in StepResults(DispatchLookups[Len(DispatchLookups)])

CanonicalHits(q) == {i \in 1..Len(players_table) : Contains(q, player_names[i])}
AliasPlayers(e) ==
  {j \in 1..Len(players_table) :
     player_names[j] = e.name \/ player_names[j] \in Range(e.variations)}
AliasHits(q) ==
  {i \in 1..Len(name_variations) :
     VariationMatch(name_variations[i], q) /\ AliasPlayers(name_variations[i]) # {}}
WordHits(q) == {i \in 1..Len(players_table) : PartialMatch(player_names[i], q)}
IdAt(i) == players_table[i].player_id

\* the player the precedence of the tiers selects
ByPrecedence(q) ==
  IF CanonicalHits(q) # {} THEN IdAt(MinOf(CanonicalHits(q)))
  ELSE IF AliasHits(q) # {}
  THEN IdAt(MinOf(AliasPlayers(name_variations[MinOf(AliasHits(q))])))
  ELSE IF WordHits(q) # {} THEN IdAt(MinOf(WordHits(q)))
  ELSE NULL

PlayerReturned == fn = "get_images_by_player_name" /\ pc = "returned"
RowsOfPlayer(id) ==
  \A j \in 1..Len(similar_images) : RowById(similar_images[j].id).player_id = id

\* C25: whenever get_images_by_player_name resolves a player id (the query
\* went past the multiple-player test), the id is the one of the first
\* canonical name that occurs; else, when no canonical name occurs, the one of
\* the first alias entry that matches; else the one of the first whole-word
\* first/last-name match; and only rows of that player are returned
C25_TierPrecedence ==
  (PlayerReturned /\ ~outcome.delegated)
    => /\ outcome.player_id = ByPrecedence(Lower(input_query))
       /\ RowsOfPlayer(outcome.player_id)

\* a canonical name wins over the alias of another player, and rows come back
C25_Witness ==
  /\ PlayerReturned /\ ~outcome.delegated
  /\ CanonicalHits(Lower(input_query)) # {}
  /\ \E i \in AliasHits(Lower(input_query)) :
       IdAt(MinOf(AliasPlayers(name_variations[i]))) # outcome.player_id
  /\ similar_images # << >>

\* the action keywords of the single-player path that occur in the query
ActionKeywordsIn(q) == {i \in 1..Len(action_terms) : Contains(q, action_terms[i])}
HasActionNamed(r, kw) ==
  /\ NameOf(action_table, r.action_id) # NULL
  /\ Contains(Lower(NameOf(action_table, r.action_id)), kw)

\* C26: when the query names a player and contains an action keyword, every
\* row get_images_by_player_name returns has an action whose canonical name
\* contains a keyword of the query
C26_ActionFilter ==
  (PlayerReturned /\ ~raised /\ outcome.player_id # NULL
     /\ ActionKeywordsIn(Lower(input_query)) # {})
    => \A j \in 1..Len(similar_images) :
         \E i \in ActionKeywordsIn(Lower(input_query)) :
           HasActionNamed(RowById(similar_images[j].id), action_terms[i])

\* the tokens of the query, in either case, that the misspelling table lists
Misspelled(query) ==
  {w \in Range(word_tokenize(query)) \cup Range(word_tokenize(Lower(query))) :
     \E i \in 1..Len(cricket_terms) : w \in cricket_terms[i].miss}

\* C27: for a query none of whose tokens is in the misspelling table,
\* correct_spelling returns the query text unchanged and the list refine_query
\* returns holds no spelling-corrected variant
C27_CleanQueryUnchanged ==
  (fn = "refine_query" /\ pc = "returned" /\ Misspelled(input_query) = {})
    => /\ correct_spelling(input_query) = input_query
       /\ \A i \in 1..Len(refined_queries) :
            refined_queries[i] = correct_spelling(input_query)
              => refined_queries[i] = input_query

\* C28: the query made of a tabular keyword followed by a neutral noun
\* phrase is classified tabular
C28_TabularKeywords ==
  (Classified /\ input_query \in TabularKeywordQueries)
    => outcome.category = "tabular"

\* a connector of the multiple-player test as a separate word or symbol
ConnectorIn(q) == WholeWord(q, "and") \/ Contains(q, "&") \/ Contains(q, ",")
ReturnedIds == {similar_images[j].id : j \in 1..Len(similar_images)}

\* C29: a query with one player's full name and no connector as a separate
\* word or symbol is not handed to the multiple-player path: it is resolved by
\* that player's id and the player's rows are returned
C29_ConnectorAsWord ==
  (PlayerReturned /\ ~raised /\ input_k = 0
     /\ Cardinality(CanonicalHits(Lower(input_query))) = 1
     /\ ~ConnectorIn(Lower(input_query)))
    => /\ ~outcome.delegated
       /\ ReturnedIds =
            {i \in db : player_where_clause(Lower(input_query),
                                            ByPrecedence(Lower(input_query)),
                                            RowById(i))}

\* no string is handed to the structured retriever twice: the original once
\* by query_images, each variant at most once by the loop
AttemptedOnce ==
  \A i \in 1..Len(calls) : \A j \in (i + 1)..Len(calls) :
     (calls[i].ev = "sql_return" /\ calls[j].ev = "sql_return")
       => calls[i].q # calls[j].q

\* the loop never attempts the original query: once a variant is in the call
\* log, no later entry is for the original
OriginalNotRetried ==
  \A j \in 1..Len(calls) :
     calls[j].q # input_query
       => \A m \in j..Len(calls) : calls[m].q # input_query

NoVariantSucceeded ==
  \A j \in 1..Len(VariantCalls) :
     VariantCalls[j].ev \in {"sql_return", "get_similar_images"} => VariantCalls[j].n = 0

\* None is returned after the last variant: all variants were attempted
NoneAfterLast ==
  (fn = "query_images" /\ RefinementStarted /\ pc \in {"respond", "done"}
     /\ NoVariantSucceeded)
    => /\ ri = Len(refined_queries) + 1
       /\ similar_images = << >>
       /\ StringsOf(VariantCalls) = VariantsOf(refined_queries)

\* C30: try_refined_queries attempts each distinct variant of refine_query(q)
\* at most once, never attempts a variant equal to the original query, and
\* the loop always ends: when no variant succeeds, None is returned after the
\* last variant
C30_RefineTerminates ==
  /\ [](AttemptedOnce /\ OriginalNotRetried /\ NoneAfterLast)
  /\ (pc = "loop") ~> (pc \in {"respond", "done"})

\* the loop went through two or more variants, none succeeded, None returned
C30_Witness ==
  /\ fn = "query_images" /\ pc = "respond" /\ RefinementStarted
  /\ ri = Len(refined_queries) + 1
  /\ Len(VariantsOf(refined_queries)) >= 2
  /\ StringsOf(VariantCalls) = VariantsOf(refined_queries)
  /\ similar_images = << >>

====
